---- MODULE Spec2Model ----
(***************************************************************************)
(* Model of google/generativeai/client.py: the _ClientManager dataclass    *)
(* (configuration snapshot, lazily filled client cache, default-metadata   *)
(* wrapper) and the module-level manager built at import time.             *)
(*                                                                         *)
(* Python strings that the code only stores and compares are TLA+ strings; *)
(* service names, which the code lower-cases, title-cases, splits and      *)
(* concatenates, are sequences of one-character strings.  A user-agent is  *)
(* a sequence of tokens, so that += is concatenation.                      *)
(***************************************************************************)
EXTENDS Integers, Sequences, FiniteSets, TLC

\* ------------------------------------------------------------------ bounds
\* Number of service clients the collaborator constructors may build.
MaxClients == 2
\* Number of times configure may append its tag to one caller-owned
\* ClientInfo object (user_agent += ... grows without bound otherwise).
MaxAgentTags == 1

\* --------------------------------------------------------------- constants
\* Python's None where a string is expected.
None == "None"
\* `if x:` on an optional string.
Truthy(s) == s # None /\ s # ""

USER_AGENT == "genai-py"
version == "0.0.0"

\* The managers of the model: the module-level _client_manager and one
\* manager a caller constructs with _ClientManager().
ModuleManager == "module"
Managers == {"module", "other"}

\* ------------------------------------------------------------ str methods
Uppers == <<"A","B","C","D","E","F","G","H","I","J","K","L","M",
            "N","O","P","Q","R","S","T","U","V","W","X","Y","Z">>
Lowers == <<"a","b","c","d","e","f","g","h","i","j","k","l","m",
            "n","o","p","q","r","s","t","u","v","w","x","y","z">>

IsUpper(c) == \E i \in 1..26 : Uppers[i] = c
IsLower(c) == \E i \in 1..26 : Lowers[i] = c
Letters == {Uppers[i] : i \in 1..26} \cup {Lowers[i] : i \in 1..26}
ToLower == [c \in Letters |-> IF IsUpper(c) THEN Lowers[CHOOSE i \in 1..26 : Uppers[i] = c] ELSE c]
ToUpper == [c \in Letters |-> IF IsLower(c) THEN Uppers[CHOOSE i \in 1..26 : Lowers[i] = c] ELSE c]
LowerChar(c) == IF c \in Letters THEN ToLower[c] ELSE c
UpperChar(c) == IF c \in Letters THEN ToUpper[c] ELSE c

\* A lower() that returns the string as it is.
LowerIdentity(s) == s

\* str.lower()
Lower(s) == [i \in 1..Len(s) |-> LowerChar(s[i])]
\* str.title(): the first letter of every run of letters in upper case, the
\* other letters in lower case.
Title(s) == [i \in 1..Len(s) |->
               IF i = 1 \/ s[i-1] \notin Letters THEN UpperChar(s[i]) ELSE LowerChar(s[i])]
\* str.endswith(suffix)
EndsWith(s, suffix) ==
    /\ Len(s) >= Len(suffix)
    /\ SubSeq(s, Len(s) - Len(suffix) + 1, Len(s)) = suffix
\* s.split("_")[0]
SplitFirst(s) ==
    IF \E i \in 1..Len(s) : s[i] = "_"
    THEN SubSeq(s, 1, (CHOOSE i \in 1..Len(s) :
                          s[i] = "_" /\ \A j \in 1..(i-1) : s[j] # "_") - 1)
    ELSE s

\* ------------------------------------------------------------ literals
s_async == <<"_","a","s","y","n","c">>
s_operations == <<"o","p","e","r","a","t","i","o","n","s">>
s_Model == <<"M","o","d","e","l">>
s_ServiceClient == <<"S","e","r","v","i","c","e","C","l","i","e","n","t">>
s_ServiceAsyncClient ==
    <<"S","e","r","v","i","c","e","A","s","y","n","c","C","l","i","e","n","t">>

\* Names callers pass to get_default_client.
n_model == <<"m","o","d","e","l">>
n_text_async == <<"t","e","x","t","_","a","s","y","n","c">>
n_Operations == <<"O","p","e","r","a","t","i","o","n","s">>
n_nope == <<"n","o","p","e">>
LookupNames == {n_model, s_Model, n_text_async, s_operations, n_Operations, n_nope}
\* The names get_default_generative_client and
\* get_default_generative_async_client pass.
n_generative == <<"g","e","n","e","r","a","t","i","v","e">>
n_generative_async == <<"g","e","n","e","r","a","t","i","v","e","_","a","s","y","n","c">>

\* ------------------------------------------- google.ai.generativelanguage
\* The attributes of the glm module that getattr can find: the sync and
\* async client classes of each service.
GlmServices == {s_Model, <<"T","e","x","t">>, <<"G","e","n","e","r","a","t","i","v","e">>}
GlmClasses == {svc \o s_ServiceClient : svc \in GlmServices}
                 \cup {svc \o s_ServiceAsyncClient : svc \in GlmServices}

\* cls.__dict__ of a generated client class: member name -> what it is.
m_get == <<"g","e","t">>
m_rpc == <<"_","r","p","c">>
m_load == <<"l","o","a","d">>
m_path == <<"p","a","t","h">>
m_transport == <<"t","r">>
ClassDict == [n \in {m_get, m_rpc, m_load, m_path, m_transport} |->
                CASE n = m_get -> "function"
                  [] n = m_rpc -> "function"
                  [] n = m_load -> "classmethod"
                  [] n = m_path -> "staticmethod"
                  [] n = m_transport -> "property"]

\* ------------------------------------------------------------- references
\* A reference held in the cache or by a caller: None, a service client (by
\* construction number), or the operations client of a service client's
\* transport.
NoneRef == [type |-> "None", id |-> 0]
ClientRef(i) == [type |-> "client", id |-> i]
OperationsRef(i) == [type |-> "operations", id |-> i]

\* Objects the caller owns and may pass to several configure calls.
CallerOptions == {"O1"}
CallerInfos == {"I1"}
\* A ClientOptions / ClientInfo object that configure creates itself is
\* reachable only from the snapshot of the manager configured; it is kept in
\* the slot named after that manager.
OptionIds == CallerOptions \cup Managers
InfoIds == CallerInfos \cup Managers

\* ------------------------------------------------------------------ state
VARIABLES
    environ,     \* os.environ["GOOGLE_API_KEY"], None when unset
    options,     \* ClientOptions objects: id -> api_key attribute
    infos,       \* ClientInfo objects: id -> user_agent attribute
    managers,    \* manager -> [client_config, default_metadata, clients]
    objects,     \* the service clients constructed so far, by number: the
                 \* manager whose make_client built it, the members replaced
                 \* by adapters, the number of adapters around each of them
                 \* and around the operations of its transport's operations
                 \* client, and (history) the default metadata at that time
    configured,  \* history: manager -> arguments of its latest successful configure
    last,        \* history: the most recent call and what it did
    threads,     \* thread -> the call it is executing, its position in the
                 \* code and its local variables
    built        \* history: for each service client, the cache key it was
                 \* constructed for, the api_key its constructor received,
                 \* the stores of configure that its lookup met (raced,
                 \* crossed) or that followed its construction (replaced),
                 \* whether it is the client stored last under its key, and
                 \* whether its store replaced an entry that another lookup
                 \* had stored since this one read the cache (overwrote)

vars == <<environ, options, infos, managers, objects, configured, last, threads, built>>

\* The program state the methods read and write, as one value.
Now == [environ |-> environ, options |-> options, infos |-> infos,
        managers |-> managers, objects |-> objects, configured |-> configured]

\* {} as a Python dict.
EmptyDict == [k \in {} |-> None]
\* dict.get(key, None) on a dict of references.
DictGet(d, key) == IF key \in DOMAIN d THEN d[key] ELSE NoneRef
\* d[key] = value
DictSet(d, key, value) == [k \in DOMAIN d \cup {key} |-> IF k = key THEN value ELSE d[k]]

\* _ClientManager(): the dataclass defaults.
NewManager == [client_config |-> EmptyDict, default_metadata |-> <<>>, clients |-> EmptyDict]

\* ---------------------------------------------------------------- configure
\* The keyword arguments of configure.  client_options is None, a dict, or a
\* ClientOptions object of the caller; client_info is None or a ClientInfo
\* object of the caller.
OptionsNone == [kind |-> "None", api_key |-> None, id |-> None]
OptionsDict(k) == [kind |-> "dict", api_key |-> k, id |-> None]
OptionsObject(o) == [kind |-> "ClientOptions", api_key |-> None, id |-> o]

NoArgs == [api_key |-> None, credentials |-> None, transport |-> None,
           client_options |-> OptionsNone, client_info |-> None,
           default_metadata |-> <<>>]

\* f"{USER_AGENT}/{__version__}"
user_agent == <<USER_AGENT, "/", version>>

\* A configure that works on a copy of the caller's ClientOptions object.
options_id_of_copy(m, co) == m

\* Lines 66-71: the ClientOptions object configure works on (the caller's, or
\* a new one) and the api_key it already carries.
options_id(m, co) == IF co.kind = "ClientOptions" THEN co.id ELSE m
had_api_key_value(S, co) ==
    CASE co.kind = "ClientOptions" -> S.options[co.id]
      [] co.kind = "dict" -> co.api_key
      [] OTHER -> None

\* A conflict test that takes an empty api_key argument for no argument.
api_key_conflict_truthy(had, api_key) == Truthy(had) /\ Truthy(api_key)

\* Lines 73-75: both an api_key argument and a key on client_options.
api_key_conflict(had, api_key) == Truthy(had) /\ api_key # None

\* A resolution that prefers the environment to the api_key argument.
resolve_api_key_env_first(had, api_key, env) ==
    IF Truthy(had)
    THEN had
    ELSE IF env # None THEN env ELSE api_key

\* A resolution that never reads the environment.
resolve_api_key_never_env(had, api_key, env) ==
    IF Truthy(had) THEN had ELSE api_key

\* A resolution that reads the environment for every empty api_key argument
\* (`if not api_key` for `if api_key is None`).
resolve_api_key_falsy(had, api_key, env) ==
    IF Truthy(had)
    THEN had
    ELSE IF ~Truthy(api_key) THEN env ELSE api_key

\* Lines 73-82: the api_key client_options carries when no error is raised.
resolve_api_key(had, api_key, env) ==
    IF Truthy(had)
    THEN had
    ELSE IF api_key = None THEN env ELSE api_key

\* A merge that sets the tag in place of the user_agent the caller supplied.
merge_user_agent_overwriting(had) == user_agent

\* Lines 84-92: the user_agent left on client_info, given the one it had
\* (<<>> for a new ClientInfo, for None and for "").
merge_user_agent(had) ==
    IF had # <<>> THEN had \o <<" ">> \o user_agent ELSE user_agent

\* Lines 94-101: the client_config dict, without the None values.
build_client_config(credentials, transport, oid, iid) ==
    LET all == [k \in {"credentials", "transport", "client_options", "client_info"} |->
                  CASE k = "credentials" -> credentials
                    [] k = "transport" -> transport
                    [] k = "client_options" -> oid
                    [] k = "client_info" -> iid]
    IN [k \in {x \in DOMAIN all : all[x] # None} |-> all[k]]

\* A configure that clears the service clients and keeps the operations entry.
store_configuration_keeping_operations(self, client_config, default_metadata) ==
    [self EXCEPT !.client_config = client_config,
                 !.default_metadata = default_metadata,
                 !.clients = [k \in DOMAIN @ \cap {s_operations} |-> @[k]]]

\* A configure that stores the new snapshot and keeps the cache.
store_configuration_keeping_cache(self, client_config, default_metadata) ==
    [self EXCEPT !.client_config = client_config,
                 !.default_metadata = default_metadata]

\* Lines 103-106: the manager after configure has stored its results.
store_configuration(self, client_config, default_metadata) ==
    [self EXCEPT !.client_config = client_config,
                 !.default_metadata = default_metadata,
                 !.clients = EmptyDict]

\* _ClientManager.configure on manager m with keyword arguments a:
\* [raised, S].  An object the call creates itself takes the manager's slot;
\* the slot is emptied when the new snapshot refers to a caller's object, the
\* object it held being unreachable from then on.
configure(S, m, a) ==
    LET oid == options_id(m, a.client_options)
        had == had_api_key_value(S, a.client_options)
        key == resolve_api_key(had, a.api_key, S.environ)
        iid == IF a.client_info # None THEN a.client_info ELSE m
        agent == merge_user_agent(IF a.client_info # None THEN S.infos[iid] ELSE <<>>)
    IN IF api_key_conflict(had, a.api_key)
       THEN [raised |-> "ValueError", S |-> S]
       ELSE [raised |-> None,
             S |-> [S EXCEPT
                 !.options = [o \in OptionIds |->
                                IF o = oid THEN key ELSE IF o = m THEN None ELSE @[o]],
                 !.infos = [i \in InfoIds |->
                                IF i = iid THEN agent ELSE IF i = m THEN <<>> ELSE @[i]],
                 !.managers[m] = store_configuration(@,
                                     build_client_config(a.credentials, a.transport, oid, iid),
                                     a.default_metadata),
                 !.configured[m] = [done |-> TRUE, args |-> a]]]

\* -------------------------------------------------------------- make_client
\* Lines 109-113: the name of the glm class for a (lower-cased) service name.
class_name(name) ==
    IF EndsWith(name, s_async)
    THEN Title(SplitFirst(name)) \o s_ServiceAsyncClient
    ELSE Title(name) \o s_ServiceClient

\* A keep without the test of the name's first character.
keep_reserved_names(name, f) ==
    IF f # "function" THEN FALSE
    ELSE IF f = "classmethod" THEN FALSE
    ELSE IF f = "staticmethod" THEN FALSE
    ELSE TRUE

\* Lines 124-134.
keep(name, f) ==
    IF name[1] = "_" THEN FALSE
    ELSE IF f # "function" THEN FALSE
    ELSE IF f = "classmethod" THEN FALSE
    ELSE IF f = "staticmethod" THEN FALSE
    ELSE TRUE

\* A make_client without the early return of lines 121-122.
wrapped_members_always(default_metadata) ==
    {n \in DOMAIN ClassDict : keep(n, ClassDict[n])}

\* Lines 121-122 and 143-148: the members of a new client that are replaced
\* by the adapter, given the manager's default_metadata.
wrapped_members(default_metadata) ==
    IF default_metadata = <<>>
    THEN {}
    ELSE {n \in DOMAIN ClassDict : keep(n, ClassDict[n])}

\* Lines 121-122 and 146-148: the number of adapters that make_client puts
\* around each member it replaces (one setattr for each name of cls.__dict__).
adapter_layers(default_metadata) == IF default_metadata = <<>> THEN 0 ELSE 1

\* The call cls(**client_config): the class, the keyword arguments, and the
\* api_key and user_agent that the two objects among them carry at that
\* moment (Absent when the object is not passed).
Absent == "Absent"
constructor_arguments(S, cls, client_config) ==
    [cls |-> cls,
     kwargs |-> client_config,
     api_key |-> IF "client_options" \in DOMAIN client_config
                 THEN S.options[client_config["client_options"]] ELSE Absent,
     user_agent |-> IF "client_info" \in DOMAIN client_config
                    THEN S.infos[client_config["client_info"]] ELSE <<Absent>>]

\* Lines 115-117: the state after the attempt to configure using defaults.
\* The call is to the module-level configure(), which configures the
\* module-level manager.
configure_defaults(S, m) ==
    IF S.managers[m].client_config = EmptyDict
    THEN configure(S, ModuleManager, NoArgs).S
    ELSE S

\* The init of a call that constructed no client.
NotBuilt == [cls |-> <<>>, kwargs |-> EmptyDict, api_key |-> "NotBuilt", user_agent |-> <<>>]

\* A make_client that attempts to configure before it looks the class up.
make_client_configure_first(S, m, name, ext) ==
    LET cls == class_name(name)
        S1 == configure_defaults(S, m)
        mgr == S1.managers[m]
        obj == [manager |-> m,
                wrapped |-> wrapped_members(mgr.default_metadata),
                layers |-> adapter_layers(mgr.default_metadata),
                operations_layers |-> 0,
                defaults |-> mgr.default_metadata]
    IN IF cls \notin GlmClasses
       THEN [raised |-> "AttributeError", S |-> S1, client |-> NoneRef, init |-> NotBuilt]
       ELSE IF ~ext.ctor
       THEN [raised |-> "ConstructorError", S |-> S1, client |-> NoneRef, init |-> NotBuilt]
       ELSE [raised |-> None,
             S |-> [S1 EXCEPT !.objects = Append(@, obj)],
             client |-> ClientRef(Len(S1.objects) + 1),
             init |-> constructor_arguments(S1, cls, mgr.client_config)]

\* _ClientManager.make_client: [raised, S, client, init], init being the
\* keyword arguments the constructor received.  ext.ctor tells whether the
\* collaborator's constructor returns or raises.
make_client(S, m, name, ext) ==
    LET cls == class_name(name)
        S1 == configure_defaults(S, m)
        mgr == S1.managers[m]
        obj == [manager |-> m,
                wrapped |-> wrapped_members(mgr.default_metadata),
                layers |-> adapter_layers(mgr.default_metadata),
                operations_layers |-> 0,
                defaults |-> mgr.default_metadata]
    IN IF cls \notin GlmClasses
       THEN [raised |-> "AttributeError", S |-> S, client |-> NoneRef, init |-> NotBuilt]
       ELSE IF ~ext.ctor
       THEN [raised |-> "ConstructorError", S |-> S1, client |-> NoneRef, init |-> NotBuilt]
       ELSE [raised |-> None,
             S |-> [S1 EXCEPT !.objects = Append(@, obj)],
             client |-> ClientRef(Len(S1.objects) + 1),
             init |-> constructor_arguments(S1, cls, mgr.client_config)]

\* ------------------------------------------------------- get_default_client
RECURSIVE get_default_client(_, _, _, _)
RECURSIVE get_default_operations_client(_, _, _)

\* A lookup that constructs and stores a client whether or not one is cached.
lookup_always_make(S, m, name, ext) ==
    LET r == make_client(S, m, name, ext)
    IN IF r.raised # None
       THEN r
       ELSE [r EXCEPT !.S.managers[m].clients = DictSet(@, name, r.client)]

\* A lookup that catches the constructor's error, stores None and returns it.
lookup_or_make_swallowing(S, m, name, ext) ==
    LET client == DictGet(S.managers[m].clients, name)
    IN IF client = NoneRef
       THEN LET r == make_client(S, m, name, ext)
            IN IF r.raised = "ConstructorError"
               THEN [r EXCEPT !.raised = None,
                              !.S.managers[m].clients = DictSet(@, name, NoneRef)]
               ELSE IF r.raised # None
               THEN r
               ELSE [r EXCEPT !.S.managers[m].clients = DictSet(@, name, r.client)]
       ELSE [raised |-> None, S |-> S, client |-> client, init |-> NotBuilt]

\* A lookup that puts the adapters around the operations of the cached client
\* again before it returns it.
lookup_or_make_rewrapping(S, m, name, ext) ==
    LET client == DictGet(S.managers[m].clients, name)
    IN IF client = NoneRef
       THEN LET r == make_client(S, m, name, ext)
            IN IF r.raised # None
               THEN r
               ELSE [r EXCEPT !.S.managers[m].clients = DictSet(@, name, r.client)]
       ELSE [raised |-> None,
             S |-> [S EXCEPT !.objects[client.id].layers =
                                 @ + adapter_layers(S.managers[m].default_metadata)],
             client |-> client, init |-> NotBuilt]

\* Lines 157-161: the cache lookup for a name that is not "operations".
lookup_or_make(S, m, name, ext) ==
    LET client == DictGet(S.managers[m].clients, name)
    IN IF client = NoneRef
       THEN LET r == make_client(S, m, name, ext)
            IN IF r.raised # None
               THEN r
               ELSE [r EXCEPT !.S.managers[m].clients = DictSet(@, name, r.client)]
       ELSE [raised |-> None, S |-> S, client |-> client, init |-> NotBuilt]

\* _ClientManager.get_default_client: [raised, S, client, init].
get_default_client(S, m, name, ext) ==
    LET lname == Lower(name)
    IN IF lname = s_operations
       THEN get_default_operations_client(S, m, ext)
       ELSE lookup_or_make(S, m, lname, ext)

\* A line 167 that reads the transport of the first client constructed.
extract_operations_client_of_first(model_client) == OperationsRef(1)

\* Line 167: model_client._transport.operations_client.
extract_operations_client(model_client) == OperationsRef(model_client.id)

\* A get_default_operations_client that returns the operations client
\* without storing it.
get_default_operations_client_uncached(S, m, ext) ==
    LET client == DictGet(S.managers[m].clients, s_operations)
    IN IF client = NoneRef
       THEN LET r == get_default_client(S, m, s_Model, ext)
            IN IF r.raised # None
               THEN r
               ELSE IF ~ext.ops
               THEN [r EXCEPT !.raised = "TransportError", !.client = NoneRef]
               ELSE [r EXCEPT !.client = extract_operations_client(r.client)]
       ELSE [raised |-> None, S |-> S, client |-> client, init |-> NotBuilt]

\* A get_default_operations_client that reserves the operations entry before
\* it reads the transport.
get_default_operations_client_reserving(S, m, ext) ==
    LET client == DictGet(S.managers[m].clients, s_operations)
    IN IF client = NoneRef
       THEN LET r == get_default_client(S, m, s_Model, ext)
            IN IF r.raised # None
               THEN r
               ELSE IF ~ext.ops
               THEN [r EXCEPT !.raised = "TransportError", !.client = NoneRef,
                              !.S.managers[m].clients = DictSet(@, s_operations, NoneRef)]
               ELSE [r EXCEPT !.client = extract_operations_client(r.client),
                              !.S.managers[m].clients =
                                  DictSet(@, s_operations, extract_operations_client(r.client))]
       ELSE [raised |-> None, S |-> S, client |-> client, init |-> NotBuilt]

\* A get_default_operations_client that puts the metadata adapters around
\* the operations of the operations client as make_client does for a service
\* client.
get_default_operations_client_wrapping(S, m, ext) ==
    LET client == DictGet(S.managers[m].clients, s_operations)
    IN IF client = NoneRef
       THEN LET r == get_default_client(S, m, s_Model, ext)
            IN IF r.raised # None
               THEN r
               ELSE IF ~ext.ops
               THEN [r EXCEPT !.raised = "TransportError", !.client = NoneRef]
               ELSE [r EXCEPT !.client = extract_operations_client(r.client),
                              !.S.objects[r.client.id].operations_layers =
                                  adapter_layers(r.S.managers[m].default_metadata),
                              !.S.managers[m].clients =
                                  DictSet(@, s_operations, extract_operations_client(r.client))]
       ELSE [raised |-> None, S |-> S, client |-> client, init |-> NotBuilt]

\* _ClientManager.get_default_operations_client: [raised, S, client].  ext.ops
\* tells whether reading the transport's operations_client returns or raises.
get_default_operations_client(S, m, ext) ==
    LET client == DictGet(S.managers[m].clients, s_operations)
    IN IF client = NoneRef
       THEN LET r == get_default_client(S, m, s_Model, ext)
            IN IF r.raised # None
               THEN r
               ELSE IF ~ext.ops
               THEN [r EXCEPT !.raised = "TransportError", !.client = NoneRef]
               ELSE [r EXCEPT !.client = extract_operations_client(r.client),
                              !.S.managers[m].clients =
                                  DictSet(@, s_operations, extract_operations_client(r.client))]
       ELSE [raised |-> None, S |-> S, client |-> client, init |-> NotBuilt]

\* ------------------------------------------------- the metadata adapter
\* An adapter that puts the defaults before the caller's metadata.
call_defaults_first(S, self, args, kwargs, metadata) ==
    [args |-> args,
     kwargs |-> kwargs,
     metadata |-> S.managers[self].default_metadata \o metadata]

\* Lines 137-139: what the adapter `call`, created by
\* add_default_metadata_wrapper in make_client of manager `self`, passes to
\* the original operation f.
call(S, self, args, kwargs, metadata) ==
    [args |-> args,
     kwargs |-> kwargs,
     metadata |-> metadata \o S.managers[self].default_metadata]

\* A call that enters n adapters, one around the other: each is `call`, and
\* its f is the adapter inside it or, for the innermost, the original
\* operation.
RECURSIVE call_through(_, _, _, _, _, _)
call_through(S, self, n, args, kwargs, metadata) ==
    IF n = 0
    THEN [args |-> args, kwargs |-> kwargs, metadata |-> metadata]
    ELSE LET inner == call(S, self, args, kwargs, metadata)
         IN call_through(S, self, n - 1, inner.args, inner.kwargs, inner.metadata)

\* An adapter that appends the default metadata under which its client was
\* constructed.
invoke_with_defaults_at_construction(S, i, member, args, kwargs, metadata) ==
    IF member \in S.objects[i].wrapped
    THEN [args |-> args, kwargs |-> kwargs,
          metadata |-> metadata \o S.objects[i].defaults]
    ELSE [args |-> args, kwargs |-> kwargs, metadata |-> metadata]

\* client.<member>(*args, metadata=metadata, **kwargs) on service client i:
\* what the collaborator's original operation receives.
invoke(S, i, member, args, kwargs, metadata) ==
    IF member \in S.objects[i].wrapped
    THEN call_through(S, S.objects[i].manager, S.objects[i].layers, args, kwargs, metadata)
    ELSE [args |-> args, kwargs |-> kwargs, metadata |-> metadata]

\* operations_client.<operation>(*args, metadata=metadata, **kwargs) on the
\* operations client of service client i's transport: what its original
\* operation receives.
invoke_operations(S, i, args, kwargs, metadata) ==
    call_through(S, S.objects[i].manager, S.objects[i].operations_layers,
                 args, kwargs, metadata)

\* ------------------------------------------- google/generativeai/embedding.py
\* Line 58.
EMBEDDING_MAX_BATCH_SIZE == 100
\* Number of contents in the iterable given to embed_content.
MaxContents == 201

\* glm.TaskType: the members, by value 0..5.
EmbeddingTaskType ==
    <<"TASK_TYPE_UNSPECIFIED", "RETRIEVAL_QUERY", "RETRIEVAL_DOCUMENT",
      "SEMANTIC_SIMILARITY", "CLASSIFICATION", "CLUSTERING">>
TaskTypeValues == {v - 1 : v \in DOMAIN EmbeddingTaskType}
\* The value of the member with this name.
Member(name) == (CHOOSE v \in DOMAIN EmbeddingTaskType : EmbeddingTaskType[v] = name) - 1

\* A task_type argument: None, a str, an int or a member of glm.TaskType.
TaskNone == [kind |-> "None", str |-> <<>>, int |-> 0]
TaskStr(x) == [kind |-> "str", str |-> x, int |-> 0]
TaskInt(x) == [kind |-> "int", str |-> <<>>, int |-> x]
TaskEnum(x) == [kind |-> "enum", str |-> <<>>, int |-> x]
\* `if task_type:`
TruthyTask(x) ==
    CASE x.kind = "None" -> FALSE
      [] x.kind = "str" -> x.str # <<>>
      [] OTHER -> x.int # 0

\* Lines 64-87: the str keys of _EMBEDDING_TASK_TYPE; the int keys and the
\* members are the values 0..5 themselves.
EMBEDDING_TASK_TYPE_NAMES ==
       <<"t","a","s","k","_","t","y","p","e","_","u","n","s","p","e","c","i","f","i","e","d">> :> 0
    @@ <<"u","n","s","p","e","c","i","f","i","e","d">> :> 0
    @@ <<"r","e","t","r","i","e","v","a","l","_","q","u","e","r","y">> :> 1
    @@ <<"q","u","e","r","y">> :> 1
    @@ <<"r","e","t","r","i","e","v","a","l","_","d","o","c","u","m","e","n","t">> :> 2
    @@ <<"d","o","c","u","m","e","n","t">> :> 2
    @@ <<"s","e","m","a","n","t","i","c","_","s","i","m","i","l","a","r","i","t","y">> :> 3
    @@ <<"s","i","m","i","l","a","r","i","t","y">> :> 3
    @@ <<"c","l","a","s","s","i","f","i","c","a","t","i","o","n">> :> 4
    @@ <<"c","l","u","s","t","e","r","i","n","g">> :> 5

\* Lines 90-93: [raised, value]; a str is lower-cased, and a key that the
\* table does not have raises KeyError.
to_task_type(x) ==
    CASE x.kind = "str" /\ Lower(x.str) \in DOMAIN EMBEDDING_TASK_TYPE_NAMES ->
            [raised |-> None, value |-> TaskEnum(EMBEDDING_TASK_TYPE_NAMES[Lower(x.str)])]
      [] x.kind \in {"int", "enum"} /\ x.int \in TaskTypeValues ->
            [raised |-> None, value |-> TaskEnum(x.int)]
      [] OTHER -> [raised |-> "KeyError", value |-> TaskNone]

\* A _batched that does not yield the items left after the last full batch.
RECURSIVE batched_dropping_rest(_, _)
batched_dropping_rest(iterable, n) ==
    IF Len(iterable) < n
    THEN <<>>
    ELSE <<SubSeq(iterable, 1, n)>>
             \o batched_dropping_rest(SubSeq(iterable, n + 1, Len(iterable)), n)

\* Lines 96-113: the batches _batched(iterable, n) yields, for n >= 1.  Each
\* yield of line 109 is the next n items; the yield of line 113 is the items
\* left when fewer than n remain, and there is none when no item is left.
RECURSIVE batched(_, _)
batched(iterable, n) ==
    IF Len(iterable) < n
    THEN IF iterable # <<>> THEN <<iterable>> ELSE <<>>
    ELSE <<SubSeq(iterable, 1, n)>> \o batched(SubSeq(iterable, n + 1, Len(iterable)), n)

\* The content argument: one content (a str or a Mapping), or an iterable of
\* n contents, which are numbered 1..n; the one content has the number 0.
OneContent == [kind |-> "content", n |-> 0]
Contents(n) == [kind |-> "iterable", n |-> n]

\* Collaborators outside this module: model_types.make_model_name,
\* content_types.to_content and the embedding the service returns for a
\* request.
make_model_name(model) == [name |-> model]
to_content(c) == [parts |-> c]
EmbeddingOf(request) == [values |-> request.content]

\* Lines 165-169: the loop over the batches from batch b on, each sent to the
\* client: the embedding list, extended by the values of each response.
RECURSIVE embed_batches(_, _, _)
embed_batches(batches, b, embedding) ==
    IF b > Len(batches)
    THEN embedding
    ELSE embed_batches(batches, b + 1,
             embedding \o [i \in 1..Len(batches[b]) |-> EmbeddingOf(batches[b][i]).values])

\* The client argument: None, or a client the caller constructed.
GivenClient == [type |-> "given", id |-> 0]

\* Line 160 (and 172): glm.EmbedContentRequest.
EmbedContentRequest(model, c, task_type, title) ==
    [model |-> model, content |-> to_content(c), task_type |-> task_type, title |-> title]

\* A call of embed_content that has sent nothing and returned nothing.
NoResult == [kind |-> "None", embedding |-> <<>>]
Raise(error, r) ==
    [raised |-> error, S |-> r.S, client |-> r.client, init |-> r.init,
     sent |-> <<>>, result |-> NoResult]

\* Lines 144-178 (and 209-243): embed_content with arguments a, the default
\* client being the one of `name`: [raised, S, client, init, sent, result],
\* sent being the calls made on the client, in order.
embed_content(S, a, name, ext) ==
    LET model == make_model_name(a.model)
        r == IF a.client = NoneRef
             THEN get_default_client(S, ModuleManager, name, ext)
             ELSE [raised |-> None, S |-> S, client |-> a.client, init |-> NotBuilt]
        checked == to_task_type(a.task_type)
        converted == IF TruthyTask(a.task_type)
                     THEN to_task_type(a.task_type)
                     ELSE [raised |-> None, value |-> a.task_type]
        task_type == converted.value
        requests == [c \in 1..a.content.n |-> EmbedContentRequest(model, c, task_type, a.title)]
        batches == batched(requests, EMBEDDING_MAX_BATCH_SIZE)
        request == EmbedContentRequest(model, 0, task_type, a.title)
    IN IF r.raised # None
       THEN Raise(r.raised, r)
       ELSE IF Truthy(a.title) /\ checked.raised # None
       THEN Raise(checked.raised, r)
       ELSE IF Truthy(a.title) /\ checked.value # TaskEnum(Member("RETRIEVAL_DOCUMENT"))
       THEN Raise("ValueError", r)
       ELSE IF converted.raised # None
       THEN Raise(converted.raised, r)
       ELSE IF a.content.kind = "iterable"
       THEN [raised |-> None, S |-> r.S, client |-> r.client, init |-> r.init,
             sent |-> [b \in 1..Len(batches) |->
                         [method |-> "batch_embed_contents",
                          request |-> [model |-> model, requests |-> batches[b]]]],
             result |-> [kind |-> "batch", embedding |-> embed_batches(batches, 1, <<>>)]]
       ELSE [raised |-> None, S |-> r.S, client |-> r.client, init |-> r.init,
             sent |-> << [method |-> "embed_content",
                          request |-> [model |-> model, requests |-> <<request>>]] >>,
             result |-> [kind |-> "content", embedding |-> <<EmbeddingOf(request).values>>]]

\* ------------------------------------------------------------------ inputs
ApiKeys == {None, "", "K1", "K2"}
Credentials == {None, "creds"}
Transports == {None, "rest"}
ClientOptionsArgs == {OptionsNone, OptionsDict("Y")} \cup {OptionsObject(o) : o \in CallerOptions}
ClientInfoArgs == {None} \cup CallerInfos
Metadatas == {<<>>, << <<"d", "1">> >>, << <<"e", "2">> >>}
CallerMetadatas == {<<>>, << <<"c", "2">>, <<"d", "1">> >>}
CallArguments == {[args |-> <<"request">>, kwargs |-> {}],
                  [args |-> <<>>, kwargs |-> {"timeout"}]}
Environments == {None, "Z"}
\* The user_agent a caller gives its ClientInfo object.
CallerAgents == {<<>>, <<"U">>}
\* What the collaborator does during a lookup: everything returns, the
\* constructor raises, or reading the transport's operations_client raises.
Outcomes == {[ctor |-> TRUE, ops |-> TRUE], [ctor |-> FALSE, ops |-> TRUE],
             [ctor |-> TRUE, ops |-> FALSE]}

\* The collaborator returns from every call.
AllReturn == [ctor |-> TRUE, ops |-> TRUE]

\* The arguments of embed_content.  Line 57.
DEFAULT_EMB_MODEL == "models/embedding-001"
TaskTypes ==
    {TaskNone, TaskStr(<<>>),
     TaskStr(<<"d","o","c","u","m","e","n","t">>), TaskStr(<<"R","E","T","R","I","E","V","A","L","_","D","O","C","U","M","E","N","T">>),
     TaskStr(<<"q","u","e","r","y">>), TaskStr(<<"b","o","g","u","s">>),
     TaskInt(0), TaskInt(2), TaskInt(9),
     TaskEnum(Member("RETRIEVAL_DOCUMENT")), TaskEnum(Member("CLASSIFICATION"))}
Titles == {None, "", "T"}
\* Calls with an iterable of every length, without a title and task type or
\* with a title for a retrieval document.
BatchCalls ==
    {[model |-> DEFAULT_EMB_MODEL, content |-> Contents(n), task_type |-> tt.task_type,
      title |-> tt.title, client |-> GivenClient] :
        n \in 0..MaxContents,
        tt \in {[task_type |-> TaskNone, title |-> None],
                [task_type |-> TaskStr(<<"d","o","c","u","m","e","n","t">>), title |-> "T"]}}
\* Calls with every task type and title, for one content and for two, on the
\* default client or the caller's.
TitleCalls ==
    {[model |-> DEFAULT_EMB_MODEL, content |-> content, task_type |-> task_type,
      title |-> title, client |-> client] :
        content \in {OneContent, Contents(2)}, task_type \in TaskTypes,
        title \in Titles, client \in {NoneRef, GivenClient}}

\* The configure calls of the model.  A call sets the arguments of one group
\* and leaves the others at their defaults.
KeyCalls ==
    {[NoArgs EXCEPT !.api_key = k, !.client_options = co] :
        k \in ApiKeys, co \in ClientOptionsArgs}
ExplicitKeyCalls == {[NoArgs EXCEPT !.api_key = k] : k \in {"K1", "K2"}}
TransportCalls ==
    {[NoArgs EXCEPT !.credentials = c, !.transport = t] :
        c \in Credentials, t \in Transports}
InfoCalls == {[NoArgs EXCEPT !.client_info = ci] : ci \in ClientInfoArgs}
MetadataCalls == {[NoArgs EXCEPT !.default_metadata = md] : md \in Metadatas}

\* Number of product tags in a user_agent.
AgentTags(agent) == Cardinality({i \in 1..Len(agent) : agent[i] = USER_AGENT})

\* ----------------------------------------------------------- call records
NoCall == [target |-> 0, member |-> <<>>, given |-> [args |-> <<>>, kwargs |-> {}, metadata |-> <<>>],
           received |-> [args |-> <<>>, kwargs |-> {}, metadata |-> <<>>],
           looked_up |-> FALSE]
\* The record of a call that is not an embed_content call.
NoEmbed == [args |-> [model |-> None, content |-> OneContent, task_type |-> TaskNone,
                      title |-> None, client |-> NoneRef],
            sent |-> <<>>, result |-> NoResult]

\* Whether the call before this one was a successful configure of manager m,
\* and the cache entries that call removed.
NotAfter == [configure |-> FALSE, evicted |-> EmptyDict]
After(m) ==
    IF last.kind = "configure" /\ last.raised = None /\ last.manager = m
    THEN [configure |-> TRUE, evicted |-> last.before]
    ELSE NotAfter

\* The record of a call on manager m, with arguments a, that took S to r.S.
Record(kind, m, name, a, S, r) ==
    [kind |-> kind, manager |-> m, name |-> name, args |-> a,
     environ |-> S.environ,
     raised |-> r.raised,
     result |-> r.client,
     built |-> (Len(S.objects) + 1)..Len(r.S.objects),
     init |-> r.init,
     before |-> S.managers[m].clients,
     carried |-> CASE a.client_options.kind = "ClientOptions" -> S.options[a.client_options.id]
                   [] a.client_options.kind = "dict" -> a.client_options.api_key
                   [] OTHER -> None,
     after |-> After(m),
     call |-> NoCall,
     outcome |-> AllReturn,
     embed |-> NoEmbed]

Become(S) ==
    /\ environ' = S.environ
    /\ options' = S.options
    /\ infos' = S.infos
    /\ managers' = S.managers
    /\ objects' = S.objects
    /\ configured' = S.configured

\* ----------------------------------------------------------------- threads
\* The threads of the process that call the manager.
Threads == {"t1", "t2"}

\* A thread that is in no call of the manager.  For a thread in a call, pc
\* is its position and op the method it called; name is the argument of the
\* get_default_client call being executed, client the service client held in
\* the local variable `client` (0 for none), for_operations whether the
\* get_default_client call was made by get_default_operations_client, nested
\* whether the configure call was made by make_client, config the local
\* variables of configure.
NoLocals == [self |-> ModuleManager, key |-> None, agent |-> <<>>,
             client_config |-> EmptyDict, default_metadata |-> <<>>]
Idle == [pc |-> "idle", op |-> "none", manager |-> ModuleManager, name |-> <<>>,
         client |-> 0, for_operations |-> FALSE, nested |-> FALSE,
         config |-> NoLocals]

\* -------------------------------------------------------------------- Init
\* The state once the module is imported: lines 214-215 have built the
\* module-level manager and configured it with no arguments.
AtImport(env) ==
    configure([environ |-> env,
               options |-> [o \in OptionIds |-> None],
               infos |-> [i \in InfoIds |-> <<>>],
               managers |-> [m \in Managers |-> NewManager],
               objects |-> <<>>,
               configured |-> [m \in Managers |->
                                 [done |-> FALSE, args |-> NoArgs]]],
              ModuleManager, NoArgs).S

\* The record of the import.
Imported(env) ==
    [kind |-> "import", manager |-> ModuleManager, name |-> <<>>,
     args |-> NoArgs, environ |-> env, raised |-> None, result |-> NoneRef,
     built |-> {}, init |-> NotBuilt, before |-> EmptyDict, carried |-> None,
     after |-> NotAfter, call |-> NoCall, outcome |-> AllReturn,
     embed |-> NoEmbed]

Init ==
    \E env \in Environments :
        /\ environ = AtImport(env).environ
        /\ options = AtImport(env).options
        /\ infos = AtImport(env).infos
        /\ managers = AtImport(env).managers
        /\ objects = AtImport(env).objects
        /\ configured = AtImport(env).configured
        /\ last = Imported(env)
        /\ threads = [t \in Threads |-> Idle]
        /\ built = <<>>

\* The state once the module is imported, with a caller about to call
\* embed_content or embed_content_async with the arguments a.
InitEmbedding ==
    \E env \in Environments, a \in BatchCalls \cup TitleCalls :
        /\ environ = AtImport(env).environ
        /\ options = AtImport(env).options
        /\ infos = AtImport(env).infos
        /\ managers = AtImport(env).managers
        /\ objects = AtImport(env).objects
        /\ configured = AtImport(env).configured
        /\ last = [Imported(env) EXCEPT !.kind = "caller", !.embed.args = a]
        /\ threads = [t \in Threads |-> Idle]
        /\ built = <<>>

\* ----------------------------------------------------------------- actions
\* m.configure(**a)
Configure(m, a) ==
    /\ a.client_info # None => AgentTags(infos[a.client_info]) < MaxAgentTags
    /\ LET r == configure(Now, m, a)
       IN /\ Become(r.S)
          /\ last' = Record("configure", m, <<>>, a, Now,
                          [raised |-> r.raised, S |-> r.S, client |-> NoneRef, init |-> NotBuilt])
    /\ UNCHANGED <<threads, built>>

\* m.get_default_client(name)
GetDefaultClient(m, name, ext) ==
    LET r == get_default_client(Now, m, name, ext)
    IN /\ Len(r.S.objects) <= MaxClients
       /\ Become(r.S)
       /\ last' = [Record("get_default_client", m, name, NoArgs, Now, r) EXCEPT !.outcome = ext]
       /\ UNCHANGED <<threads, built>>

\* m.get_default_operations_client()
GetDefaultOperationsClient(m, ext) ==
    LET r == get_default_operations_client(Now, m, ext)
    IN /\ Len(r.S.objects) <= MaxClients
       /\ Become(r.S)
       /\ last' = [Record("get_default_operations_client", m, s_operations, NoArgs, Now, r)
                      EXCEPT !.outcome = ext]
       /\ UNCHANGED <<threads, built>>

\* A caller that holds service client i calls one of its operations.  The
\* record tells whether the caller has just received the client from a
\* get_default_client call that found it in the cache.
CallOperation(i, member, c, metadata) ==
    /\ i \in 1..Len(objects)
    /\ ClassDict[member] = "function"
    /\ UNCHANGED <<environ, options, infos, managers, objects, configured, threads, built>>
    /\ last' = [kind |-> "call", manager |-> objects[i].manager, name |-> <<>>,
                args |-> NoArgs, environ |-> environ, raised |-> None,
                result |-> NoneRef, built |-> {}, init |-> NotBuilt,
                before |-> managers[objects[i].manager].clients,
                carried |-> None, after |-> NotAfter,
                call |-> [target |-> i, member |-> member,
                          given |-> [args |-> c.args, kwargs |-> c.kwargs, metadata |-> metadata],
                          received |-> invoke(Now, i, member, c.args, c.kwargs, metadata),
                          looked_up |-> /\ last.kind = "get_default_client"
                                        /\ last.raised = None
                                        /\ last.built = {}
                                        /\ last.result = ClientRef(i)],
                outcome |-> AllReturn,
                embed |-> NoEmbed]

\* An operation of operations_v1.OperationsClient.
m_get_operation == <<"g","e","t","_","o","p","e","r","a","t","i","o","n">>

\* A caller that has received, from manager m, the operations client of
\* service client i's transport calls one of its operations.
CallOperationsClient(m, i, c, metadata) ==
    /\ DictGet(managers[m].clients, s_operations) = OperationsRef(i)
    /\ UNCHANGED <<environ, options, infos, managers, objects, configured, threads, built>>
    /\ last' = [kind |-> "operations_call", manager |-> m, name |-> <<>>,
                args |-> NoArgs, environ |-> environ, raised |-> None,
                result |-> NoneRef, built |-> {}, init |-> NotBuilt,
                before |-> managers[m].clients,
                carried |-> None, after |-> NotAfter,
                call |-> [target |-> i, member |-> m_get_operation,
                          given |-> [args |-> c.args, kwargs |-> c.kwargs, metadata |-> metadata],
                          received |-> invoke_operations(Now, i, c.args, c.kwargs, metadata),
                          looked_up |-> last.result = OperationsRef(i)],
                outcome |-> AllReturn,
                embed |-> NoEmbed]

\* embed_content(**a) by the caller that holds the arguments a: the call, the
\* lookup of the default client included, and what it sent to the client and
\* returned.
EmbedContent ==
    LET a == last.embed.args
    IN /\ last.kind = "caller"
       /\ \E r \in {embed_content(Now, a, n_generative, AllReturn)} :
              /\ Len(r.S.objects) <= MaxClients
              /\ Become(r.S)
              /\ last' = [Record("embed_content", ModuleManager, n_generative, NoArgs, Now, r)
                             EXCEPT !.embed = [args |-> a, sent |-> r.sent, result |-> r.result]]
              /\ UNCHANGED <<threads, built>>

\* await embed_content_async(**a)
EmbedContentAsync ==
    LET a == last.embed.args
    IN /\ last.kind = "caller"
       /\ \E r \in {embed_content(Now, a, n_generative_async, AllReturn)} :
              /\ Len(r.S.objects) <= MaxClients
              /\ Become(r.S)
              /\ last' = [Record("embed_content_async", ModuleManager, n_generative_async, NoArgs,
                                 Now, r)
                             EXCEPT !.embed = [args |-> a, sent |-> r.sent, result |-> r.result]]
              /\ UNCHANGED <<threads, built>>

\* The environment variable is set or unset.
SetEnviron(env) ==
    /\ env # environ
    /\ environ' = env
    /\ UNCHANGED <<options, infos, managers, objects, configured, last, threads, built>>

\* The caller sets the user_agent of its ClientInfo object.
SetUserAgent(i, agent) ==
    /\ infos[i] # agent
    /\ infos' = [infos EXCEPT ![i] = agent]
    /\ UNCHANGED <<environ, options, managers, objects, configured, last, threads, built>>

\* The cache and the metadata adapter: lookups of every name, calls through
\* the clients, and the configure calls that set default metadata.
Next ==
    \/ \E a \in MetadataCalls : Configure(ModuleManager, a)
    \/ \E name \in LookupNames, ext \in Outcomes : GetDefaultClient(ModuleManager, name, ext)
    \/ \E ext \in Outcomes : GetDefaultOperationsClient(ModuleManager, ext)
    \/ \E i \in 1..MaxClients, member \in DOMAIN ClassDict, c \in CallArguments,
          metadata \in CallerMetadatas : CallOperation(i, member, c, metadata)
    \/ \E i \in 1..MaxClients, c \in CallArguments, metadata \in CallerMetadatas :
          CallOperationsClient(ModuleManager, i, c, metadata)

Spec == Init /\ [][Next]_vars

\* The API key: configure calls that give a key as the argument, in
\* client_options or not at all, a changing environment, and lookups of the
\* Model client.
NextKey ==
    \/ \E a \in KeyCalls : Configure(ModuleManager, a)
    \/ \E ext \in Outcomes : GetDefaultClient(ModuleManager, n_model, ext)
    \/ \E env \in Environments : SetEnviron(env)

SpecKey == Init /\ [][NextKey]_vars

\* From the snapshot to the constructor: configure calls that set an API key,
\* the credentials and transport or the client info, a caller that changes
\* its ClientInfo object, and lookups of the Model client.
NextSnapshot ==
    \/ \E a \in ExplicitKeyCalls \cup TransportCalls \cup InfoCalls : Configure(ModuleManager, a)
    \/ \E ext \in Outcomes : GetDefaultClient(ModuleManager, n_model, ext)
    \/ \E i \in CallerInfos, agent \in CallerAgents : SetUserAgent(i, agent)

SpecSnapshot == Init /\ [][NextSnapshot]_vars

\* Several managers: the module-level manager and a manager that a caller
\* constructs with _ClientManager(), each configured and looked up.
ManagerCalls ==
    {[NoArgs EXCEPT !.default_metadata = md] : md \in {<<>>, << <<"d", "1">> >>}}
        \cup {[NoArgs EXCEPT !.api_key = "K1"]}
ManagerNames == {n_model, n_nope}
\* The collaborator's outcomes under this specification.
Returning == {AllReturn}

NextManagers ==
    \/ \E m \in Managers, a \in ManagerCalls : Configure(m, a)
    \/ \E m \in Managers, name \in ManagerNames, ext \in Returning : GetDefaultClient(m, name, ext)
    \/ \E m \in Managers, ext \in Returning : GetDefaultOperationsClient(m, ext)

SpecManagers == Init /\ [][NextManagers]_vars

\* The embedding functions, which take the default generative clients from
\* the module-level manager.
NextEmbedding ==
    \/ EmbedContent
    \/ EmbedContentAsync

SpecEmbedding == InitEmbedding /\ [][NextEmbedding]_vars

\* ------------------------------------------------- the methods, step by step
\* The same methods as executed by threads: a step is the code between two
\* accesses to the manager's fields, which another thread's step may precede
\* or follow.  No step waits for another thread.

\* threads with thread t at rec.
ThreadAt(t, rec) == [threads EXCEPT ![t] = rec]

\* The service clients that lookups on manager m hold in their local variable
\* `client` between the cache check and the cache store.
Held(m, positions) ==
    {threads[u].client : u \in {v \in Threads : /\ threads[v].manager = m
                                               /\ threads[v].pc \in positions}} \ {0}

\* built, with the clients of the three sets marked.
Marked(replaced, raced, crossed) ==
    [i \in 1..Len(built) |->
        [built[i] EXCEPT !.replaced = @ \/ i \in replaced,
                         !.raced = @ \/ i \in raced,
                         !.crossed = @ \/ i \in crossed]]

\* The clients that manager m's make_client has constructed.
ConstructedBy(m) == {i \in 1..Len(objects) : objects[i].manager = m}

\* Lines 66-101 of configure on manager m: the local variables before the
\* stores of lines 103-106.
configure_locals(m, a) ==
    LET oid == options_id(m, a.client_options)
        iid == IF a.client_info # None THEN a.client_info ELSE m
    IN [self |-> m,
        key |-> resolve_api_key(had_api_key_value(Now, a.client_options), a.api_key, environ),
        agent |-> merge_user_agent(IF a.client_info # None THEN infos[iid] ELSE <<>>),
        client_config |-> build_client_config(a.credentials, a.transport, oid, iid),
        default_metadata |-> a.default_metadata]

\* Thread t calls m.configure(**a) and executes lines 66-101: the api_key and
\* the user_agent are set on the caller's objects, or on new objects that
\* only this thread holds until line 103.
BeginConfigure(t, m, a) ==
    /\ threads[t].pc = "idle"
    /\ a.client_info # None => AgentTags(infos[a.client_info]) < MaxAgentTags
    /\ LET c == configure_locals(m, a)
           self == [Idle EXCEPT !.op = "configure", !.manager = m]
       IN IF api_key_conflict(had_api_key_value(Now, a.client_options), a.api_key)
          THEN /\ threads' = ThreadAt(t, Idle)
               /\ UNCHANGED <<options, infos>>
          ELSE /\ threads' = ThreadAt(t, [self EXCEPT !.pc = "store_config", !.config = c])
               /\ options' = IF a.client_options.kind = "ClientOptions"
                              THEN [options EXCEPT ![a.client_options.id] = c.key]
                              ELSE options
               /\ infos' = IF a.client_info # None
                            THEN [infos EXCEPT ![a.client_info] = c.agent]
                            ELSE infos
    /\ UNCHANGED <<environ, managers, objects, configured, last, built>>

\* Line 103: self.client_config = client_config.  The new ClientOptions and
\* ClientInfo objects become the ones the manager refers to.
StoreClientConfig(t) ==
    /\ threads[t].pc = "store_config"
    /\ LET c == threads[t].config
           m == c.self
           private_options == "client_options" \in DOMAIN c.client_config
                                 /\ c.client_config["client_options"] = m
           private_info == "client_info" \in DOMAIN c.client_config
                              /\ c.client_config["client_info"] = m
       IN /\ managers' = [managers EXCEPT ![m].client_config = c.client_config]
          /\ options' = [options EXCEPT ![m] = IF private_options THEN c.key ELSE None]
          /\ infos' = [infos EXCEPT ![m] = IF private_info THEN c.agent ELSE <<>>]
          /\ built' = Marked(ConstructedBy(m), {}, Held(m, {"wrap", "store", "extract"}))
    /\ threads' = ThreadAt(t, [threads[t] EXCEPT !.pc = "store_metadata"])
    /\ UNCHANGED <<environ, objects, configured, last>>

\* A line 104 that stores nothing.
store_default_metadata_dropped(self, default_metadata) == self

\* Line 104: self.default_metadata = default_metadata.
store_default_metadata(self, default_metadata) ==
    [self EXCEPT !.default_metadata = default_metadata]

StoreDefaultMetadata(t) ==
    /\ threads[t].pc = "store_metadata"
    /\ LET c == threads[t].config
           m == c.self
       IN /\ managers' = [managers EXCEPT ![m] = store_default_metadata(@, c.default_metadata)]
          /\ built' = Marked({}, Held(m, {"wrap"}), Held(m, {"wrap", "store", "extract"}))
    /\ threads' = ThreadAt(t, [threads[t] EXCEPT !.pc = "clear"])
    /\ UNCHANGED <<environ, options, infos, objects, configured, last>>

\* A line 106 that leaves the cache as it is.
clear_clients_dropped(self) == self

\* Line 106: self.clients = {}.
clear_clients(self) == [self EXCEPT !.clients = EmptyDict]

\* Line 106, after which configure returns: to the thread's caller, or to
\* line 119 of make_client.
ClearClients(t) ==
    /\ threads[t].pc = "clear"
    /\ LET self == threads[t]
           m == self.config.self
           cleared == clear_clients(managers[m])
           marked == Marked({}, {}, Held(m, {"wrap", "store", "extract"}))
       IN /\ managers' = [managers EXCEPT ![m] = cleared]
          /\ built' = [i \in 1..Len(built) |->
                         [marked[i] EXCEPT
                             !.stored = @ /\ \E k \in DOMAIN cleared.clients :
                                                cleared.clients[k] = ClientRef(i),
                             !.overwrote = @ /\ \E k \in DOMAIN cleared.clients :
                                                   cleared.clients[k] = ClientRef(i)]]
          /\ threads' = ThreadAt(t,
                            IF self.nested
                            THEN [self EXCEPT !.pc = "construct", !.nested = FALSE,
                                              !.config = NoLocals]
                            ELSE Idle)
    /\ UNCHANGED <<environ, options, infos, objects, configured, last>>

\* A line 166 that asks get_default_client for "operations".
operations_model_name_wrong == s_operations

\* Line 166: the name get_default_operations_client asks get_default_client for.
operations_model_name == s_Model

\* Lines 153-158 of get_default_client, for the thread at `self`: the name
\* is lower-cased; for "operations" get_default_operations_client is called;
\* otherwise the cache is read, and an entry found is returned to the caller,
\* which is the thread's caller or line 167.
check_cache(self) ==
    LET name == Lower(self.name)
        client == DictGet(managers[self.manager].clients, name)
    IN IF name = s_operations
       THEN [self EXCEPT !.pc = "check_operations", !.name = name]
       ELSE IF client = NoneRef
       THEN [self EXCEPT !.pc = "make", !.name = name]
       ELSE IF self.for_operations
       THEN [self EXCEPT !.pc = "extract", !.name = name, !.client = client.id]
       ELSE Idle

\* Lines 164-166 of get_default_operations_client, for the thread at `self`:
\* the cache is read; an entry found is returned, otherwise
\* get_default_client("Model") is called.
check_operations(self) ==
    IF DictGet(managers[self.manager].clients, s_operations) = NoneRef
    THEN [self EXCEPT !.pc = "check", !.name = operations_model_name,
                      !.for_operations = TRUE]
    ELSE Idle

\* Thread t calls m.get_default_client(name) and executes it as far as its
\* read of the cache.
BeginGetDefaultClient(t, m, name) ==
    /\ threads[t].pc = "idle"
    /\ threads' = ThreadAt(t, check_cache([Idle EXCEPT !.op = "get_default_client",
                                                       !.manager = m, !.name = name]))
    /\ UNCHANGED <<environ, options, infos, managers, objects, configured, last, built>>

\* Thread t calls m.get_default_operations_client() and executes it as far
\* as its read of the cache.
BeginGetDefaultOperationsClient(t, m) ==
    /\ threads[t].pc = "idle"
    /\ threads' = ThreadAt(t, check_operations(
                                  [Idle EXCEPT !.op = "get_default_operations_client",
                                               !.manager = m]))
    /\ UNCHANGED <<environ, options, infos, managers, objects, configured, last, built>>

\* get_default_client, called by get_default_operations_client, reads the
\* cache.
CheckCache(t) ==
    /\ threads[t].pc = "check"
    /\ threads' = ThreadAt(t, check_cache(threads[t]))
    /\ UNCHANGED <<environ, options, infos, managers, objects, configured, last, built>>

\* get_default_operations_client, called by get_default_client, reads the
\* cache.
CheckOperations(t) ==
    /\ threads[t].pc = "check_operations"
    /\ threads' = ThreadAt(t, check_operations(threads[t]))
    /\ UNCHANGED <<environ, options, infos, managers, objects, configured, last, built>>

\* Lines 109-117 of make_client: the class is looked up, and when the
\* manager's client_config is empty the module-level configure() is called
\* with no arguments.
MakeClient(t) ==
    /\ threads[t].pc = "make"
    /\ LET self == threads[t]
       IN threads' = ThreadAt(t,
            IF class_name(self.name) \notin GlmClasses
            THEN Idle
            ELSE IF managers[self.manager].client_config = EmptyDict
            THEN [self EXCEPT !.pc = "store_config", !.nested = TRUE,
                              !.config = configure_locals(ModuleManager, NoArgs)]
            ELSE [self EXCEPT !.pc = "construct"])
    /\ UNCHANGED <<environ, options, infos, managers, objects, configured, last, built>>

\* Line 119: client = cls(**self.client_config).  The constructor returns
\* (ok) or raises.
Construct(t, ok) ==
    /\ threads[t].pc = "construct"
    /\ LET self == threads[t]
           m == self.manager
           init == constructor_arguments(Now, class_name(self.name), managers[m].client_config)
           torn == \E u \in Threads : /\ threads[u].pc = "store_metadata"
                                      /\ threads[u].config.self = m
       IN IF ok
          THEN /\ objects' = Append(objects, [manager |-> m, wrapped |-> {}, layers |-> 0,
                                              operations_layers |-> 0,
                                              defaults |-> <<>>])
               /\ built' = Append(built, [name |-> self.name, api_key |-> init.api_key,
                                          raced |-> torn, replaced |-> FALSE,
                                          crossed |-> FALSE, stored |-> FALSE,
                                          overwrote |-> FALSE])
               /\ threads' = ThreadAt(t, [self EXCEPT !.pc = "wrap",
                                                      !.client = Len(objects) + 1])
          ELSE /\ threads' = ThreadAt(t, Idle)
               /\ UNCHANGED <<objects, built>>
    /\ UNCHANGED <<environ, options, infos, managers, configured, last>>

\* Lines 121-150: self.default_metadata is read and, unless it is empty, the
\* operations of the new client are replaced by adapters.
Wrap(t) ==
    /\ threads[t].pc = "wrap"
    /\ LET self == threads[t]
           default_metadata == managers[self.manager].default_metadata
       IN objects' = [objects EXCEPT ![self.client] =
                         [@ EXCEPT !.wrapped = wrapped_members(default_metadata),
                                   !.layers = adapter_layers(default_metadata),
                                   !.defaults = default_metadata]]
    /\ threads' = ThreadAt(t, [threads[t] EXCEPT !.pc = "store"])
    /\ UNCHANGED <<environ, options, infos, managers, configured, last, built>>

\* A store that keeps the entry another thread has stored meanwhile
\* (dict.setdefault).
store_client_keeping_first(clients, name, client) ==
    IF name \in DOMAIN clients THEN clients ELSE DictSet(clients, name, client)

\* Line 160: self.clients[name] = client.
store_client(clients, name, client) == DictSet(clients, name, client)

\* Lines 160-161: the client is stored and returned, to the thread's caller
\* or to line 167.
StoreClient(t) ==
    /\ threads[t].pc = "store"
    /\ LET self == threads[t]
           m == self.manager
       IN /\ managers' = [managers EXCEPT ![m].clients =
                              store_client(@, self.name, ClientRef(self.client))]
          /\ built' = [i \in 1..Len(built) |->
                         [built[i] EXCEPT
                             !.stored =
                                 IF i = self.client THEN TRUE
                                 ELSE @ /\ ~(objects[i].manager = m /\ built[i].name = self.name),
                             !.overwrote =
                                 IF i = self.client
                                 THEN self.name \in DOMAIN managers[m].clients
                                 ELSE @ /\ ~(objects[i].manager = m
                                             /\ built[i].name = self.name)]]
          /\ threads' = ThreadAt(t, IF self.for_operations
                                    THEN [self EXCEPT !.pc = "extract"]
                                    ELSE Idle)
    /\ UNCHANGED <<environ, options, infos, objects, configured, last>>

\* Lines 167-169: the operations client of the Model client's transport is
\* read (which returns, ok, or raises), stored and returned.
ExtractOperations(t, ok) ==
    /\ threads[t].pc = "extract"
    /\ LET self == threads[t]
           m == self.manager
           client == extract_operations_client(ClientRef(self.client))
       IN IF ok
          THEN /\ managers' = [managers EXCEPT ![m].clients =
                                   store_client(@, s_operations, client)]
               /\ threads' = ThreadAt(t, Idle)
          ELSE /\ threads' = ThreadAt(t, Idle)
               /\ UNCHANGED managers
    /\ UNCHANGED <<environ, options, infos, objects, configured, last, built>>

\* The next step of the call thread t is executing.
Step(t) ==
    \/ StoreClientConfig(t)
    \/ StoreDefaultMetadata(t)
    \/ ClearClients(t)
    \/ CheckCache(t)
    \/ CheckOperations(t)
    \/ MakeClient(t)
    \/ \E ok \in BOOLEAN : Construct(t, ok)
    \/ Wrap(t)
    \/ StoreClient(t)
    \/ \E ok \in BOOLEAN : ExtractOperations(t, ok)

\* The configure call of the threads: it sets an API key together with the
\* default metadata that go with it.
ThreadCalls ==
    {[NoArgs EXCEPT !.api_key = "K1", !.default_metadata = << <<"d", "1">> >>]}
ThreadNames == {n_model, n_Operations}
\* The thread that configures, as the setup code of an application does.
SetupThreads == {"t1"}

\* The constructors have not built MaxClients clients, counting one for
\* every lookup that may still call its constructor.
CanConstruct ==
    Len(objects) + Cardinality({t \in Threads :
                                  /\ threads[t].op # "configure"
                                  /\ threads[t].pc \notin {"idle", "wrap", "store", "extract"}})
        < MaxClients

\* The process was started with GOOGLE_API_KEY set.
InitWithKey == Init /\ environ # None

\* Threads that call the module-level manager while another thread is
\* between any two steps of its own call.
NextThreads ==
    \/ \E t \in SetupThreads, a \in ThreadCalls : BeginConfigure(t, ModuleManager, a)
    \/ \E t \in Threads, name \in ThreadNames :
          CanConstruct /\ BeginGetDefaultClient(t, ModuleManager, name)
    \/ \E t \in Threads : CanConstruct /\ BeginGetDefaultOperationsClient(t, ModuleManager)
    \/ \E t \in Threads : Step(t)

SpecThreads == InitWithKey /\ [][NextThreads]_vars

\* Any thread makes any call, and every thread that is in a call is
\* scheduled again: the interpreter runs each runnable thread, and no step
\* of these methods waits.
NextAnyThread ==
    \/ \E t \in Threads, a \in ThreadCalls : BeginConfigure(t, ModuleManager, a)
    \/ \E t \in Threads, name \in ThreadNames :
          CanConstruct /\ BeginGetDefaultClient(t, ModuleManager, name)
    \/ \E t \in Threads : CanConstruct /\ BeginGetDefaultOperationsClient(t, ModuleManager)
    \/ \E t \in Threads : Step(t)

SpecThreadsFair ==
    InitWithKey /\ [][NextAnyThread]_vars /\ \A t \in Threads : WF_vars(Step(t))

\* -------------------------------------------------------------- properties
\* The cache key of the name a lookup was called with.
KeyOf(name) == Lower(name)
\* The API key of manager m's snapshot.
SnapshotApiKey(m) == options[managers[m].client_config["client_options"]]

\* C1: two consecutive get_default_client(n) calls that return, with no call
\* between them, return the identical instance, and the second constructs and
\* wraps nothing.
C1_ConsecutiveLookupsIdentical ==
    [][(/\ last.kind = "get_default_client" /\ last.raised = None
        /\ last'.kind = "get_default_client" /\ last'.raised = None
        /\ last'.manager = last.manager /\ last'.name = last.name)
       => (/\ last'.result = last.result
           /\ last'.built = {}
           /\ objects' = objects)]_vars

\* Witness of C1: a lookup has returned the entry that was cached already.
C1_Witness ==
    /\ last.kind = "get_default_client" /\ last.raised = None
    /\ KeyOf(last.name) \in DOMAIN last.before
    /\ last.result = last.before[KeyOf(last.name)]
    /\ last.result.type = "client"

\* C2: a get_default_client(n) that follows a successful configure, for a name
\* n that was cached before the configure, returns an instance constructed by
\* this lookup, which is not the instance that was cached before.
C2_ReconfigureInvalidates ==
    (/\ last.kind = "get_default_client" /\ last.raised = None
     /\ last.after.configure
     /\ KeyOf(last.name) \in DOMAIN last.after.evicted)
    => (/\ last.result # last.after.evicted[KeyOf(last.name)]
        /\ last.result.id \in last.built
        /\ \A k \in DOMAIN last.after.evicted : last.after.evicted[k].id \notin last.built)

\* Witness of C2: a lookup of a previously cached name has returned after a
\* configure call.
C2_Witness ==
    /\ last.kind = "get_default_client" /\ last.raised = None
    /\ last.after.configure
    /\ KeyOf(last.name) \in DOMAIN last.after.evicted
    /\ last.result.type = "client"

\* C3: a client constructed by a lookup receives the fields of the latest
\* successful configure call of its manager: the api_key argument, the
\* credentials, the transport and the client info of that call.
C3_ConstructedFromLatestConfigure ==
    (/\ last.kind = "get_default_client" /\ last.raised = None
     /\ last.built # {})
    => LET a == configured[last.manager].args
           kw == last.init.kwargs
       IN /\ configured[last.manager].done
          /\ a.api_key # None => last.init.api_key = a.api_key
          /\ "credentials" \in DOMAIN kw <=> a.credentials # None
          /\ a.credentials # None => kw["credentials"] = a.credentials
          /\ "transport" \in DOMAIN kw <=> a.transport # None
          /\ a.transport # None => kw["transport"] = a.transport
          /\ a.client_info # None => kw["client_info"] = a.client_info
          /\ a.client_info = None => last.init.user_agent = user_agent

\* Witness of C3: after configure(api_key="K2") a lookup has constructed a
\* second client, in place of one that the configure removed, with "K2".
C3_Witness ==
    /\ last.kind = "get_default_client" /\ last.raised = None
    /\ last.built = {2}
    /\ last.after.configure /\ last.after.evicted # EmptyDict
    /\ configured[last.manager].args.api_key = "K2"
    /\ last.init.api_key = "K2"

\* C4: a configure call with an api_key argument and a non-empty api_key on
\* client_options raises ValueError and leaves the managers, the
\* ClientOptions and ClientInfo objects and the clients as they were.
C4_ConflictLeavesState ==
    [][(/\ last'.kind = "configure"
        /\ last'.args.api_key # None
        /\ Truthy(last'.carried))
       => (/\ last'.raised = "ValueError"
           /\ UNCHANGED <<managers, options, infos, objects, configured>>)]_vars

\* Witness of C4: a conflicting configure call has failed on a manager whose
\* cache holds a client.
C4_Witness ==
    /\ last.kind = "configure" /\ last.raised = "ValueError"
    /\ last.args.api_key # None /\ Truthy(last.carried)
    /\ managers[last.manager].clients # EmptyDict

\* C5: after a configure call with no api_key argument and no key on
\* client_options, the snapshot's API key is the value the environment
\* variable had at the call (None when it was unset), and nothing is raised.
C5_EnvironmentFallback ==
    (/\ last.kind = "configure"
     /\ last.args.api_key = None
     /\ ~Truthy(last.carried))
    => (/\ last.raised = None
        /\ SnapshotApiKey(last.manager) = last.environ)

\* Witness of C5: such a call has taken the key "Z" from the environment.
C5_Witness ==
    /\ last.kind = "configure" /\ last.raised = None
    /\ last.args.api_key = None /\ ~Truthy(last.carried)
    /\ last.environ = "Z"
    /\ SnapshotApiKey(last.manager) = "Z"

\* The key a successful configure call was given explicitly.
C6_Supplied ==
    /\ last.args.api_key # None => SnapshotApiKey(last.manager) = last.args.api_key
    /\ (last.args.api_key = None /\ Truthy(last.carried))
          => SnapshotApiKey(last.manager) = last.carried

\* C6 as stated: a supplied key is the snapshot's key, and whenever no
\* non-empty key is present anywhere, an empty api_key argument included, the
\* environment value is used.
C6_Original ==
    (last.kind = "configure" /\ last.raised = None)
    => (/\ C6_Supplied
        /\ (~Truthy(last.args.api_key) /\ ~Truthy(last.carried))
              => SnapshotApiKey(last.manager) = last.environ)

\* C6 as amended: a supplied key is the snapshot's key whatever the
\* environment holds, an empty api_key argument included; the environment
\* value is used when the api_key argument is omitted and client_options
\* carries no non-empty key.
C6_EnvironmentOnlyWithoutKey ==
    (last.kind = "configure" /\ last.raised = None)
    => (/\ C6_Supplied
        /\ (last.args.api_key = None /\ ~Truthy(last.carried))
              => SnapshotApiKey(last.manager) = last.environ)

\* Witness of C6: configure(api_key="") has stored the empty key while the
\* environment variable was set.
C6_Witness ==
    /\ last.kind = "configure" /\ last.raised = None
    /\ last.args.api_key = "" /\ ~Truthy(last.carried)
    /\ last.environ = "Z"
    /\ SnapshotApiKey(last.manager) = ""

\* The call was made through an adapter of a client constructed while the
\* default metadata was non-empty.
C7_WrappedCall ==
    /\ last.kind = "call"
    /\ objects[last.call.target].defaults # <<>>
    /\ last.call.member \in objects[last.call.target].wrapped

\* C7 as stated: a wrapped operation passes the caller's arguments unchanged
\* and the caller's metadata followed by the default metadata D under which
\* the client was constructed.
C7_Original ==
    C7_WrappedCall
    => (/\ last.call.received.args = last.call.given.args
        /\ last.call.received.kwargs = last.call.given.kwargs
        /\ last.call.received.metadata =
              last.call.given.metadata \o objects[last.call.target].defaults)

\* C7 as amended: a wrapped operation passes the caller's arguments unchanged
\* and the caller's metadata followed by the manager's default metadata at the
\* time of the call; that is D while the client is still the cached one.
C7_MetadataMergeOrder ==
    C7_WrappedCall
    => LET obj == objects[last.call.target]
           mgr == managers[obj.manager]
       IN /\ last.call.received.args = last.call.given.args
          /\ last.call.received.kwargs = last.call.given.kwargs
          /\ last.call.received.metadata = last.call.given.metadata \o mgr.default_metadata
          /\ (\E k \in DOMAIN mgr.clients : mgr.clients[k] = ClientRef(last.call.target))
                => last.call.received.metadata = last.call.given.metadata \o obj.defaults

\* Witness of C7: a wrapped operation of the cached client was called with
\* metadata that holds an entry of the defaults, and passed both copies.
C7_Witness ==
    /\ C7_WrappedCall
    /\ last.call.given.metadata = << <<"c", "2">>, <<"d", "1">> >>
    /\ last.call.received.metadata = << <<"c", "2">>, <<"d", "1">>, <<"d", "1">> >>
    /\ last.call.given.args = <<"request">>

\* C8: a client constructed while the default metadata is empty has no member
\* replaced; it is the client the lookup stores and returns, and a call
\* through it reaches the operation with what the caller passed.
C8_NoWrappingWithoutMetadata ==
    /\ \A i \in 1..Len(objects) : objects[i].defaults = <<>> => objects[i].wrapped = {}
    /\ (/\ last.kind = "get_default_client" /\ last.raised = None
        /\ last.built # {} /\ last.result.type = "client"
        /\ managers[last.manager].default_metadata = <<>>)
       => (/\ last.result.id \in last.built
           /\ objects[last.result.id].wrapped = {}
           /\ managers[last.manager].clients[KeyOf(last.name)] = last.result)
    /\ (last.kind = "call" /\ objects[last.call.target].defaults = <<>>)
       => last.call.received = last.call.given

\* Witness of C8: a lookup has constructed and stored a client under empty
\* default metadata.
C8_Witness ==
    /\ last.kind = "get_default_client" /\ last.raised = None
    /\ last.built # {} /\ last.result.type = "client"
    /\ managers[last.manager].default_metadata = <<>>
    /\ objects[last.result.id].wrapped = {}

\* C9: get_default_operations_client() that returns on an empty cache leaves
\* the model and operations entries cached, the latter being the operations
\* client of the cached Model client's transport; a call that finds the
\* operations entry returns it and constructs nothing.
C9_OperationsSpecialCase ==
    (last.kind = "get_default_operations_client" /\ last.raised = None)
    => LET c == managers[last.manager].clients
       IN /\ last.before = EmptyDict =>
                /\ DOMAIN c = {KeyOf(s_Model), s_operations}
                /\ c[KeyOf(s_Model)].type = "client"
                /\ last.built = {c[KeyOf(s_Model)].id}
                /\ c[s_operations] = OperationsRef(c[KeyOf(s_Model)].id)
                /\ last.result = c[s_operations]
          /\ s_operations \in DOMAIN last.before =>
                /\ last.result = last.before[s_operations]
                /\ last.built = {}
                /\ c = last.before

\* Witness of C9: a call on an empty cache has returned.
C9_Witness ==
    /\ last.kind = "get_default_operations_client" /\ last.raised = None
    /\ last.before = EmptyDict
    /\ last.result.type = "operations"

\* Witness of the repeated call of C9.
C9_WitnessRepeated ==
    /\ last.kind = "get_default_operations_client" /\ last.raised = None
    /\ s_operations \in DOMAIN last.before

\* C10: after a successful configure call the cache has no entry, and the
\* next get_default_operations_client() returns the operations client of a
\* Model client that it constructs, not of one that existed before.
C10_ConfigureClearsOperations ==
    /\ (last.kind = "configure" /\ last.raised = None)
          => managers[last.manager].clients = EmptyDict
    /\ (/\ last.kind = "get_default_operations_client" /\ last.raised = None
        /\ last.after.configure)
       => (/\ last.before = EmptyDict
           /\ last.result.type = "operations"
           /\ last.built = {last.result.id}
           /\ managers[last.manager].clients[KeyOf(s_Model)] = ClientRef(last.result.id)
           /\ \A k \in DOMAIN last.after.evicted :
                 last.after.evicted[k].id # last.result.id)

\* Witness of C10: get_default_operations_client() has returned after a
\* configure call that removed a model and an operations entry.
C10_Witness ==
    /\ last.kind = "get_default_operations_client" /\ last.raised = None
    /\ last.after.configure
    /\ {KeyOf(s_Model), s_operations} \subseteq DOMAIN last.after.evicted

\* The step is a lookup: a get_default_client or get_default_operations_client
\* call.
LookupStep ==
    last'.kind \in {"get_default_client", "get_default_operations_client"}

\* C11: a lookup on any manager leaves the client_config and the
\* default_metadata of every configured manager, and every existing cache
\* entry of every manager, as they were.
C11_LookupsLeaveSnapshotsAndEntries ==
    [][LookupStep
       => \A m \in Managers :
            /\ managers[m].client_config # EmptyDict
                  => /\ managers'[m].client_config = managers[m].client_config
                     /\ managers'[m].default_metadata = managers[m].default_metadata
            /\ \A k \in DOMAIN managers[m].clients :
                  /\ k \in DOMAIN managers'[m].clients
                  /\ managers'[m].clients[k] = managers[m].clients[k]]_vars

\* C12: a get_default_client that returns on a manager whose client_config
\* was empty leaves that manager with a non-empty client_config, which is
\* what the constructor received.
C12_SelfInitializing ==
    [][(/\ last'.kind = "get_default_client" /\ last'.raised = None
        /\ last'.built # {}
        /\ managers[last'.manager].client_config = EmptyDict)
       => (/\ managers'[last'.manager].client_config # EmptyDict
           /\ last'.init.kwargs = managers'[last'.manager].client_config)]_vars

\* Two names that differ at most in the case of their letters.
SameLetters(a, b) ==
    /\ Len(a) = Len(b)
    /\ \A i \in 1..Len(a) : LowerChar(a[i]) = LowerChar(b[i])
\* A name without upper-case letters.
IsLowerCase(k) == \A i \in 1..Len(k) : ~IsUpper(k[i])

\* C13: a get_default_client that follows one for a name with the same
\* letters, whatever their case, returns the identical instance and constructs
\* nothing; after a lookup has returned, the cache holds one entry whose key
\* has the letters of the name, that key is in lower case and its value is the
\* instance returned.
C13_CaseInsensitive ==
    [][/\ (/\ last.kind = "get_default_client" /\ last.raised = None
           /\ last'.kind = "get_default_client" /\ last'.raised = None
           /\ last'.manager = last.manager
           /\ SameLetters(last'.name, last.name))
          => (/\ last'.result = last.result
              /\ last'.built = {}
              /\ managers' = managers)
       /\ (last'.kind = "get_default_client" /\ last'.raised = None)
          => \E k \in DOMAIN managers'[last'.manager].clients :
                /\ SameLetters(k, last'.name)
                /\ IsLowerCase(k)
                /\ managers'[last'.manager].clients[k] = last'.result
                /\ \A j \in DOMAIN managers'[last'.manager].clients :
                      SameLetters(j, last'.name) => j = k]_vars

\* Witness of C13: get_default_client("Model") has returned the client that
\* was cached under "model".
C13_Witness ==
    /\ last.kind = "get_default_client" /\ last.raised = None
    /\ last.name = s_Model
    /\ n_model \in DOMAIN last.before
    /\ last.result = last.before[n_model]
    /\ last.built = {}
    /\ DOMAIN managers[last.manager].clients \subseteq {n_model, s_operations}

\* A name that is not "operations" and for which glm has no client class.
UnknownName(name) ==
    /\ Lower(name) # s_operations
    /\ class_name(Lower(name)) \notin GlmClasses

\* C14: get_default_client with a name for which glm has no class raises the
\* AttributeError of the class lookup, constructs nothing, and leaves every
\* manager's snapshot and cache, and the objects they refer to, as they were;
\* a repeated call therefore fails the same way.
C14_UnknownServiceFails ==
    [][(last'.kind = "get_default_client" /\ UnknownName(last'.name))
       => (/\ last'.raised = "AttributeError"
           /\ last'.result = NoneRef
           /\ last'.built = {}
           /\ UNCHANGED <<managers, options, infos, objects, configured>>)]_vars

\* Witness of C14: a lookup of an unknown name has failed on a manager that
\* was never configured, while the module-level manager holds default
\* metadata and a cached client.
C14_Witness ==
    /\ last.kind = "get_default_client" /\ last.raised = "AttributeError"
    /\ last.name = n_nope
    /\ last.manager # ModuleManager
    /\ managers[last.manager].client_config = EmptyDict
    /\ managers[ModuleManager].default_metadata # <<>>
    /\ managers[ModuleManager].clients # EmptyDict

\* get_default_client(name) on a manager with this cache gets as far as the
\* constructor call of line 119.
ReachesConstructor(clients, name) ==
    IF Lower(name) = s_operations
    THEN s_operations \notin DOMAIN clients /\ Lower(s_Model) \notin DOMAIN clients
    ELSE Lower(name) \notin DOMAIN clients /\ ~UnknownName(name)

\* C15: when the constructor raises during get_default_client(n), the caller
\* receives that error, the cache and the clients are as they were, and the
\* next get_default_client(n) calls the constructor again: it constructs a
\* client when the constructor returns.
C15_ConstructorErrorPropagates ==
    [][/\ (/\ last'.kind = "get_default_client"
           /\ ~last'.outcome.ctor
           /\ ReachesConstructor(managers[last'.manager].clients, last'.name))
          => (/\ last'.raised = "ConstructorError"
              /\ last'.result = NoneRef
              /\ managers'[last'.manager].clients = managers[last'.manager].clients
              /\ objects' = objects)
       /\ (/\ last.kind = "get_default_client" /\ last.raised = "ConstructorError"
           /\ last'.kind = "get_default_client"
           /\ last'.manager = last.manager
           /\ SameLetters(last'.name, last.name))
          => (/\ ReachesConstructor(managers[last'.manager].clients, last'.name)
              /\ last'.outcome.ctor => last'.built # {}
              /\ ~last'.outcome.ctor => last'.raised = "ConstructorError")]_vars

\* Witness of C15: the constructor has raised during a lookup on a manager
\* whose cache holds another client; the name has no entry.
C15_Witness ==
    /\ last.kind = "get_default_client" /\ last.raised = "ConstructorError"
    /\ ~last.outcome.ctor
    /\ managers[last.manager].clients # EmptyDict
    /\ KeyOf(last.name) \notin DOMAIN managers[last.manager].clients
    /\ managers[last.manager].clients = last.before

\* The call was a lookup of the operations client that ended in an error.
C16_FailedOperationsLookup ==
    /\ last.raised # None
    /\ \/ last.kind = "get_default_operations_client"
       \/ last.kind = "get_default_client" /\ Lower(last.name) = s_operations

\* C16 as stated: a lookup of the operations client that ends in an error has
\* added no entry to the cache.
C16_Original ==
    C16_FailedOperationsLookup
    => managers[last.manager].clients = last.before

\* C16 as amended: a lookup of the operations client that ends in an error
\* has added no operations entry and has changed no entry; when the class
\* lookup or the constructor raised, the cache is as it was; when reading the
\* transport's operations_client raised, the Model client that the call
\* constructed is cached under "model", or the cache is as it was if a Model
\* client was cached already.
C16_NoOperationsEntryOnError ==
    C16_FailedOperationsLookup
    => LET c == managers[last.manager].clients
       IN /\ s_operations \notin DOMAIN c
          /\ \A k \in DOMAIN last.before : k \in DOMAIN c /\ c[k] = last.before[k]
          /\ last.raised \in {"AttributeError", "ConstructorError"}
                => c = last.before /\ last.built = {}
          /\ last.raised = "TransportError"
                => IF KeyOf(s_Model) \in DOMAIN last.before
                   THEN c = last.before /\ last.built = {}
                   ELSE /\ DOMAIN c = DOMAIN last.before \cup {KeyOf(s_Model)}
                        /\ c[KeyOf(s_Model)].type = "client"
                        /\ last.built = {c[KeyOf(s_Model)].id}

\* Witness of C16: reading the transport's operations_client has raised
\* during a lookup on an empty cache, which now holds the Model client.
C16_Witness ==
    /\ C16_FailedOperationsLookup
    /\ last.raised = "TransportError"
    /\ last.before = EmptyDict
    /\ DOMAIN managers[last.manager].clients = {KeyOf(s_Model)}

\* The module-level manager's cache.
ModuleClients == managers[ModuleManager].clients
\* No thread is in a call.
AllIdle == \A t \in Threads : threads[t].pc = "idle"
\* make_client has returned client i: no thread is between lines 119 and 121
\* with it.
Complete(i) == \A t \in Threads : ~(threads[t].pc = "wrap" /\ threads[t].client = i)

\* The API key and the default metadata of each configure call made: the
\* one at import, which took the key from the environment, and the threads'.
Generations ==
    {[api_key |-> environ, default_metadata |-> <<>>]}
        \cup {[api_key |-> a.api_key, default_metadata |-> a.default_metadata] :
                 a \in ThreadCalls}
\* Client i was constructed with the API key and wrapped under the default
\* metadata of one configure call.
FromOneGeneration(i) ==
    [api_key |-> built[i].api_key, default_metadata |-> objects[i].defaults] \in Generations

\* C17 as stated: every client a lookup constructs is constructed from the
\* client_config and the default_metadata of one configure call.
C17_Original ==
    \A i \in 1..Len(objects) : Complete(i) => FromOneGeneration(i)

\* C17 as amended: a client is constructed from the client_config of one
\* configure call and the default_metadata of another only by a lookup that
\* reads client_config (line 119) while a configure call is between its
\* stores of lines 103 and 104, or that is between lines 119 and 121 when a
\* configure call stores default_metadata.
C17_MixedOnlyWhenRaced ==
    \A i \in 1..Len(objects) :
        (Complete(i) /\ ~FromOneGeneration(i)) => built[i].raced

\* Witness of C17: a client constructed with the new API key and wrapped
\* under the previous (empty) default metadata is cached, every call having
\* returned.
C17_Witness ==
    /\ AllIdle
    /\ \E i \in 1..Len(objects) :
          /\ built[i].raced
          /\ built[i].api_key = "K1" /\ objects[i].defaults = <<>>
          /\ n_model \in DOMAIN ModuleClients /\ ModuleClients[n_model] = ClientRef(i)
          /\ managers[ModuleManager].default_metadata # <<>>

\* C18 as stated: when configure calls have completed and the lookups in
\* progress have returned, the cache holds no client (and no operations client
\* of a client) constructed from a client_config that a configure call has
\* replaced since.
C18_Original ==
    AllIdle => \A k \in DOMAIN ModuleClients : ~built[ModuleClients[k].id].replaced

\* C18 as amended: when no configure call is between its stores, a cached
\* client constructed from a client_config that has been replaced since was
\* held by a lookup, between its cache check and its cache store, while a
\* configure call stored; a lookup that did not overlap configure leaves no
\* such entry.
C18_StaleOnlyWhenCrossed ==
    (\A t \in Threads : threads[t].pc \notin {"store_metadata", "clear"})
    => \A k \in DOMAIN ModuleClients :
          built[ModuleClients[k].id].replaced => built[ModuleClients[k].id].crossed

\* Witness of C18: every call has returned and the cache holds a client that
\* was constructed before configure replaced the client_config.
C18_Witness ==
    /\ AllIdle
    /\ n_model \in DOMAIN ModuleClients
    /\ built[ModuleClients[n_model].id].replaced
    /\ built[ModuleClients[n_model].id].crossed
    /\ built[ModuleClients[n_model].id].api_key # "K1"
    /\ options[ModuleManager] = "K1"

\* C19: when lookups of an uncached name interleave, each may construct a
\* client; a store (line 160, or line 168 for the operations client) sets
\* the entry of its own key to its own client and leaves every other entry
\* as it is, so that the entry of a name is the client stored last under it,
\* and only the clearing of configure removes entries.
C19_LastWriteWins ==
    [][/\ \A i \in 1..Len(built') :
             built'[i].stored
                => /\ built'[i].name \in DOMAIN managers'[objects'[i].manager].clients
                   /\ managers'[objects'[i].manager].clients[built'[i].name] = ClientRef(i)
       /\ \A m \in Managers :
             \/ managers'[m].clients = EmptyDict
                   /\ \E t \in Threads : threads[t].pc = "clear" /\ threads'[t].pc # "clear"
             \/ \A k \in DOMAIN managers[m].clients :
                   /\ k \in DOMAIN managers'[m].clients
                   /\ managers'[m].clients[k] # managers[m].clients[k]
                         => \E t \in Threads :
                               \/ /\ threads[t].pc = "store" /\ threads'[t].pc # "store"
                                  /\ threads[t].name = k
                                  /\ managers'[m].clients[k] = ClientRef(threads[t].client)
                               \/ /\ threads[t].pc = "extract" /\ threads'[t].pc # "extract"
                                  /\ k = s_operations
                                  /\ managers'[m].clients[k] =
                                        OperationsRef(threads[t].client)]_vars

\* Witness of C19: two lookups of "model" have each constructed a client
\* under one snapshot and have returned; the cache holds the client stored
\* last and, unchanged, the operations entry that belongs to the other.
C19_Witness ==
    /\ AllIdle
    /\ Len(objects) = 2
    /\ built[1].name = n_model /\ built[2].name = n_model
    /\ ~built[1].replaced /\ ~built[2].replaced
    /\ built[1].stored /\ ~built[2].stored
    /\ ModuleClients[n_model] = ClientRef(1)
    /\ s_operations \in DOMAIN ModuleClients
    /\ ModuleClients[s_operations] = OperationsRef(2)

\* The number of steps a call at this position has left at most.
Rank(self) ==
    CASE self.pc = "idle" -> 0
      [] self.pc = "extract" -> 1
      [] self.pc = "store" -> 2
      [] self.pc = "wrap" -> 3
      [] self.pc = "construct" -> 4
      [] self.pc = "clear" -> IF self.nested THEN 5 ELSE 1
      [] self.pc = "store_metadata" -> IF self.nested THEN 6 ELSE 2
      [] self.pc = "store_config" -> IF self.nested THEN 7 ELSE 3
      [] self.pc = "make" -> 8
      [] self.pc = "check" -> IF Lower(self.name) = s_operations THEN 11 ELSE 9
      [] self.pc = "check_operations" -> 10

\* C20: a thread that is in a call can always take its next step, whatever
\* the other threads are doing; each of its steps leaves it fewer steps to
\* take, the calls between get_default_client("operations"),
\* get_default_operations_client and get_default_client("Model") included;
\* and every call that a thread has started returns.
C20_NoWaitingBoundedSteps ==
    /\ [](\A t \in Threads : threads[t].pc # "idle" => ENABLED Step(t))
    /\ [][\A t \in Threads :
            threads'[t] # threads[t]
               => (threads[t].pc = "idle" \/ Rank(threads'[t]) < Rank(threads[t]))]_vars
    /\ \A t \in Threads : (threads[t].pc # "idle") ~> (threads[t].pc = "idle")

\* Witness of C20: a get_default_client("Operations") call has gone through
\* get_default_operations_client and get_default_client("Model") to line 167,
\* while another thread's configure call is between its stores.
C20_Witness ==
    \E t, u \in Threads :
        /\ threads[t].op = "get_default_client" /\ threads[t].for_operations
        /\ threads[t].pc = "extract"
        /\ threads[t].client = Len(objects)
        /\ threads[u].op = "configure" /\ threads[u].pc = "store_metadata"

\* C21: the operations of a client are replaced by adapters once, when the
\* client is constructed, and lookups that find the client in the cache add
\* none: a call through a replaced operation of the cached client passes the
\* caller's metadata followed by one copy of the default metadata.
C21_WrappedOnce ==
    /\ \A i \in 1..Len(objects) :
          /\ objects[i].layers \in {0, 1}
          /\ objects[i].layers = 1 <=> objects[i].wrapped # {}
    /\ (/\ last.kind = "call"
        /\ last.call.member \in objects[last.call.target].wrapped
        /\ \E k \in DOMAIN last.before : last.before[k] = ClientRef(last.call.target))
       => LET D == managers[last.manager].default_metadata
          IN /\ D # <<>>
             /\ D = objects[last.call.target].defaults
             /\ last.call.received.metadata = last.call.given.metadata \o D
             /\ Len(last.call.received.metadata) = Len(last.call.given.metadata) + Len(D)

\* Witness of C21: a lookup has returned the wrapped client out of the cache
\* and the caller has called an operation through it, with metadata of its
\* own.
C21_Witness ==
    /\ last.kind = "call"
    /\ last.call.looked_up
    /\ last.call.member \in objects[last.call.target].wrapped
    /\ last.call.given.metadata # <<>>
    /\ last.call.received.metadata =
          last.call.given.metadata \o managers[last.manager].default_metadata

\* The user_agent of the ClientInfo object in manager m's snapshot.
SnapshotUserAgent(m) == infos[managers[m].client_config["client_info"]]

\* C22: after a configure call that returns, the snapshot's client_info
\* carries, when the caller supplied a ClientInfo object with a non-empty
\* user_agent U, U followed by one space and the product/version tag, and
\* otherwise the tag alone; a supplied object is the one in the snapshot.
C22_UserAgentMerged ==
    [][(/\ last'.kind = "configure" /\ last'.raised = None
        /\ ~\E i \in CallerInfos, agent \in CallerAgents : SetUserAgent(i, agent))
       => LET m == last'.manager
              info == last'.args.client_info
              tag == <<USER_AGENT, "/", version>>
          IN /\ info # None => managers'[m].client_config["client_info"] = info
             /\ infos'[managers'[m].client_config["client_info"]] =
                   IF info # None /\ infos[info] # <<>>
                   THEN infos[info] \o <<" ">> \o tag
                   ELSE tag]_vars

\* Witness of C22: configure was given the caller's ClientInfo object with
\* the user_agent "U", and the snapshot's user_agent is "U genai-py/0.0.0".
C22_Witness ==
    /\ last.kind = "configure" /\ last.raised = None
    /\ last.args.client_info \in CallerInfos
    /\ SnapshotUserAgent(last.manager) = <<"U", " ", "genai-py", "/", "0.0.0">>

\* The call was a lookup of the operations client that returned.
C23_OperationsLookup ==
    /\ last.raised = None
    /\ \/ last.kind = "get_default_operations_client"
       \/ last.kind = "get_default_client" /\ Lower(last.name) = s_operations

\* C23: the object a lookup of the operations client returns is the
\* operations client of the cached Model client's transport, no operation of
\* which is replaced by an adapter, whether or not the Model client's own
\* operations are: a call through it passes what the caller passed and no
\* default metadata.
C23_OperationsUnwrapped ==
    /\ \A i \in 1..Len(objects) : objects[i].operations_layers = 0
    /\ C23_OperationsLookup
          => LET c == managers[last.manager].clients
             IN /\ last.result.type = "operations"
                /\ c[KeyOf(s_Model)].type = "client"
                /\ last.result = extract_operations_client(c[KeyOf(s_Model)])
                /\ c[s_operations] = last.result
    /\ last.kind = "operations_call" => last.call.received = last.call.given

\* Witness of C23: under non-empty default metadata a lookup has returned the
\* operations client of a wrapped Model client, and a call through it with
\* metadata of the caller has passed that metadata alone.
C23_Witness ==
    /\ last.kind = "operations_call"
    /\ last.call.looked_up
    /\ managers[last.manager].default_metadata # <<>>
    /\ objects[last.call.target].wrapped # {}
    /\ last.call.given.metadata # <<>>
    /\ last.call.received.metadata = last.call.given.metadata

\* The members of the client class that are plain functions with a name
\* that does not start with "_".
C24_PublicFunctions ==
    {n \in DOMAIN ClassDict : ClassDict[n] = "function" /\ n[1] # "_"}

\* C24: a client constructed while the default metadata is non-empty has
\* exactly the plain functions of its class with a name not starting with "_"
\* replaced by adapters; a function with a reserved name, a classmethod, a
\* staticmethod and a property are the class's own, and a call through such a
\* function passes what the caller passed.
C24_ExactlyPublicFunctionsWrapped ==
    /\ \A i \in 1..Len(objects) :
          objects[i].defaults # <<>>
             => /\ objects[i].wrapped = C24_PublicFunctions
                /\ m_get \in objects[i].wrapped
                /\ objects[i].wrapped \cap {m_rpc, m_load, m_path, m_transport} = {}
    /\ (/\ last.kind = "call"
        /\ objects[last.call.target].defaults # <<>>
        /\ last.call.member \notin C24_PublicFunctions)
       => last.call.received = last.call.given

\* Witness of C24: a client was constructed under non-empty default metadata
\* and its function _rpc, called with metadata while the defaults are still
\* set, has received the caller's metadata alone.
C24_Witness ==
    /\ last.kind = "call"
    /\ last.call.member = m_rpc
    /\ objects[last.call.target].defaults # <<>>
    /\ managers[last.manager].default_metadata # <<>>
    /\ objects[last.call.target].wrapped = {m_get}
    /\ last.call.given.metadata # <<>>
    /\ last.call.received = last.call.given

\* The operations entry of manager m's cache belongs to the cached Model
\* client.
C25_OperationsOfCachedModel(m) ==
    LET c == managers[m].clients
    IN s_operations \in DOMAIN c
          => /\ KeyOf(s_Model) \in DOMAIN c
             /\ c[KeyOf(s_Model)].type = "client"
             /\ c[s_operations] = OperationsRef(c[KeyOf(s_Model)].id)

\* C25 as stated: in every state that interleaved configure and lookup calls
\* reach, a cache with an operations entry has a model entry, and the
\* operations client is the one of that Model client's transport.
C25_Original == \A m \in Managers : C25_OperationsOfCachedModel(m)

\* C25 as amended: the operations entry is the operations client of a Model
\* client that a lookup on this manager constructed; it is the one of the
\* cached Model client unless the lookup that stored it held its Model client
\* while a configure call stored (the model entry was cleared under it), or
\* unless lookups of "model" overlapped and constructed redundant clients,
\* the store of the cached one replacing the entry another had stored.
\* Calls that do not overlap keep the two entries together.
C25_ApartOnlyWhenOverlapped ==
    \A m \in Managers :
        LET c == managers[m].clients
        IN s_operations \in DOMAIN c
              => /\ c[s_operations].type = "operations"
                 /\ c[s_operations].id \in ConstructedBy(m)
                 /\ built[c[s_operations].id].name = KeyOf(s_Model)
                 /\ \/ C25_OperationsOfCachedModel(m)
                    \/ built[c[s_operations].id].crossed
                    \/ /\ KeyOf(s_Model) \in DOMAIN c
                       /\ built[c[KeyOf(s_Model)].id].overwrote

\* Witness of C25: two lookups of the operations client have overlapped, no
\* configure call having been made; both have returned, and the cache holds
\* the second Model client and the operations client of the first.
C25_Witness ==
    /\ AllIdle
    /\ Len(objects) = 2
    /\ ~built[1].crossed /\ ~built[2].crossed
    /\ built[2].overwrote
    /\ ModuleClients[KeyOf(s_Model)] = ClientRef(2)
    /\ s_operations \in DOMAIN ModuleClients
    /\ ModuleClients[s_operations] = OperationsRef(1)

\* C26: a call through a replaced operation passes the caller's metadata
\* followed by the default metadata the manager holds at the time of the
\* call, whatever the defaults were when the client was constructed (the
\* caller's metadata alone when they are empty now); a client constructed
\* under empty defaults has no operation replaced, and a call through it
\* passes the caller's metadata alone whatever the defaults are now.
C26_DefaultsReadAtCallTime ==
    last.kind = "call"
    => LET obj == objects[last.call.target]
           now == managers[obj.manager].default_metadata
       IN /\ obj.defaults = <<>> <=> obj.wrapped = {}
          /\ last.call.received.args = last.call.given.args
          /\ last.call.received.kwargs = last.call.given.kwargs
          /\ last.call.member \in obj.wrapped
                => last.call.received.metadata = last.call.given.metadata \o now
          /\ (last.call.member \in obj.wrapped /\ now = <<>>)
                => last.call.received.metadata = last.call.given.metadata
          /\ obj.defaults = <<>>
                => last.call.received.metadata = last.call.given.metadata

\* Witness of C26: a client wrapped under the defaults (d, 1) is called, after
\* configure(default_metadata=((e, 2),)), with metadata of the caller, and
\* passes the caller's metadata followed by (e, 2).
C26_Witness ==
    /\ last.kind = "call"
    /\ objects[last.call.target].defaults = << <<"d", "1">> >>
    /\ managers[last.manager].default_metadata = << <<"e", "2">> >>
    /\ last.call.member \in objects[last.call.target].wrapped
    /\ last.call.given.metadata = << <<"c", "2">>, <<"d", "1">> >>
    /\ last.call.received.metadata = << <<"c", "2">>, <<"d", "1">>, <<"e", "2">> >>

\* A client constructed under empty defaults is called while the manager
\* holds defaults.
C26_WitnessUnwrapped ==
    /\ last.kind = "call"
    /\ objects[last.call.target].defaults = <<>>
    /\ managers[last.manager].default_metadata # <<>>
    /\ last.call.member = m_get
    /\ last.call.received = last.call.given

\* A client wrapped under defaults is called while the manager holds none.
C26_WitnessEmptied ==
    /\ last.kind = "call"
    /\ objects[last.call.target].defaults # <<>>
    /\ managers[last.manager].default_metadata = <<>>
    /\ last.call.member \in objects[last.call.target].wrapped
    /\ last.call.given.metadata # <<>>
    /\ last.call.received = last.call.given

\* The step is a configure call that was given a ClientOptions object of the
\* caller.
C27_ConfigureWithObject ==
    /\ last'.kind = "configure"
    /\ environ' = environ
    /\ last'.args.client_options.kind = "ClientOptions"

\* C27: configure sets the api_key of the caller's ClientOptions object, when
\* that carries none, to the key it resolves (the api_key argument, or the
\* environment's value when the argument is omitted), and leaves a key the
\* object carries; a later configure call with an api_key argument and the
\* same object, which now carries a non-empty key, raises ValueError and
\* leaves the managers, the objects and the clients as they were.  No other
\* operation sets the object's api_key.
C27_KeyWrittenToCallerOptions ==
    [][/\ C27_ConfigureWithObject
          => LET a == last'.args
                 O == a.client_options.id
             IN /\ (last'.raised = None /\ ~Truthy(options[O]))
                      => options'[O] = IF a.api_key # None THEN a.api_key ELSE environ
                /\ (last'.raised = None /\ Truthy(options[O]))
                      => options'[O] = options[O]
                /\ last'.raised = None
                      => managers'[last'.manager].client_config["client_options"] = O
                /\ (a.api_key # None /\ Truthy(options[O]))
                      => /\ last'.raised = "ValueError"
                         /\ UNCHANGED <<managers, options, infos, objects, configured>>
       /\ \A O \in CallerOptions :
             options'[O] # options[O]
                => /\ C27_ConfigureWithObject
                   /\ last'.args.client_options.id = O]_vars

\* Witness of C27: configure(api_key="K1", client_options=O1) has raised
\* ValueError because O1 carries the key "Z", which an earlier configure call
\* took from the environment; the caller has set no key on O1.
C27_Witness ==
    /\ last.kind = "configure" /\ last.raised = "ValueError"
    /\ last.args.api_key = "K1"
    /\ last.args.client_options = OptionsObject("O1")
    /\ last.carried = "Z"
    /\ options["O1"] = "Z"

\* The call was embed_content or embed_content_async.
EmbedCall == last.kind \in {"embed_content", "embed_content_async"}

\* C28: embed_content and embed_content_async, given an iterable of n
\* contents and returning, have made ceil(n / 100) batch_embed_contents calls;
\* every batch has between 1 and 100 requests and every batch but the last
\* has 100; the requests are those of the contents in the order given, and the
\* embedding list has the embedding of each content in that order; for n = 0
\* no call is made and the list is empty.  The call returns when neither a
\* title nor a task type is given.
C28_BatchesInOrder ==
    (EmbedCall /\ last.embed.args.content.kind = "iterable")
    => LET n == last.embed.args.content.n
           sent == last.embed.sent
           B == EMBEDDING_MAX_BATCH_SIZE
       IN /\ (last.embed.args.title = None /\ last.embed.args.task_type = TaskNone)
                => last.raised = None
          /\ last.raised = None
                => /\ Len(sent) = (n + B - 1) \div B
                   /\ \A b \in 1..Len(sent) :
                         /\ sent[b].method = "batch_embed_contents"
                         /\ Len(sent[b].request.requests) \in 1..B
                         /\ b < Len(sent) => Len(sent[b].request.requests) = B
                         /\ \A i \in 1..Len(sent[b].request.requests) :
                               sent[b].request.requests[i].content = to_content((b - 1) * B + i)
                   /\ last.embed.result.kind = "batch"
                   /\ Len(last.embed.result.embedding) = n
                   /\ \A c \in 1..n :
                         last.embed.result.embedding[c] =
                             EmbeddingOf([content |-> to_content(c)]).values
                   /\ n = 0 => sent = <<>> /\ last.embed.result.embedding = <<>>

\* Witness of C28: embed_content, given 201 contents, has sent two batches of
\* 100 requests and one of 1.
C28_Witness ==
    /\ last.kind = "embed_content" /\ last.raised = None
    /\ last.embed.args.content = Contents(2 * EMBEDDING_MAX_BATCH_SIZE + 1)
    /\ Len(last.embed.sent) = 3
    /\ Len(last.embed.sent[2].request.requests) = EMBEDDING_MAX_BATCH_SIZE
    /\ Len(last.embed.sent[3].request.requests) = 1
    /\ Len(last.embed.result.embedding) = 2 * EMBEDDING_MAX_BATCH_SIZE + 1

\* The task type is omitted, or is one that to_task_type takes for a member
\* other than RETRIEVAL_DOCUMENT.
C29_NotRetrievalDocument(x) ==
    \/ x = TaskNone
    \/ /\ to_task_type(x).raised = None
       /\ to_task_type(x).value # TaskEnum(Member("RETRIEVAL_DOCUMENT"))

\* C29: embed_content and embed_content_async, called with a non-empty title
\* and a task type that is not the retrieval-document type, an omitted task
\* type included, raise ValueError and send no request to the client.
C29_TitleNeedsRetrievalDocument ==
    (/\ EmbedCall
     /\ Truthy(last.embed.args.title)
     /\ C29_NotRetrievalDocument(last.embed.args.task_type))
    => (/\ last.raised = "ValueError"
        /\ last.embed.sent = <<>>)

====
